---- MODULE Spec2Model ----
(***************************************************************************)
(* A model of the ACP bridge for the Claude Code CLI (acp4all-go).         *)
(*                                                                         *)
(* The parts of this module:                                               *)
(*   - the permission rule engine (parseRule, matchesRule, CheckPermission)*)
(*     of src/tools.go, checked under SpecRule and SpecPerm;               *)
(*   - the session state machine (NewSession, Prompt, Cancel,              *)
(*     SetSessionMode) of src/unnamed/part_002 with the Session of         *)
(*     src/unnamed/part_004 and the child process of src/tools.go,         *)
(*     checked under Spec (two sessions), SpecRace (Prompt calls running   *)
(*     at once on one session), SpecModes (permission modes) and SpecTurn  *)
(*     (one turn at a time, every kind of event), SpecMsg (one turn at a   *)
(*     time, every shape of message content), SpecShared (Prompt calls on  *)
(*     two sessions at once), SpecClose (two Cancel calls on one process), *)
(*     SpecLoop (lines of every type the loop tells apart) and SpecCache   *)
(*     (the tool-use cache over the turns of a session);                   *)
(*   - the diff engine (createUnifiedDiff of src/unnamed/part_001 and      *)
(*     parseUnifiedDiff of src/tools.go), checked under SpecDiff;          *)
(*   - the settings manager (loadSettingsFile, mergeSettings) of           *)
(*     src/tools.go, checked under SpecSettings;                           *)
(*   - extractLinesWithByteLimit of src/unnamed/part_003, checked under    *)
(*     SpecExtract;                                                        *)
(*   - the built-in tool handlers handleBash and handleEdit with           *)
(*     replaceAndCalculateLocation of src/unnamed/part_001, checked under  *)
(*     SpecBash (one Bash call and its terminal) and SpecBuiltin (one      *)
(*     handleBuiltinTool call, for Bash or Edit, on a file of the client); *)
(*   - toolInfoFromToolUse of src/tools.go for the names outside its       *)
(*     table, checked under SpecToolInfo.                                  *)
(*                                                                         *)
(* Text is modelled as a sequence of symbols.  A symbol is one character   *)
(* ("&", "(", "\n") or a run of word characters that the code never        *)
(* splits ("Bash", "mcp__acp__", "a").                                     *)
(***************************************************************************)
EXTENDS Integers, Sequences, FiniteSets, TLC

VARIABLES
    \* ---- permission rule engine: one parseRule / matchesRule call
    ruleStr,        \* the rule string given to parseRule
    parsed,         \* the parsedRule it returned (NoRule before the call)
    matched,        \* what matchesRule returned ("none" before the call)
    \* ---- the tool invocation being checked (shared by both rule specs)
    toolName,       \* tool name, a text
    toolInput,      \* tool input: [command, file_path], "" when absent
    \* ---- SettingsManager
    mergedSettings, \* s.mergedSettings.Permissions: NoPermissions or lists
    checkResult,    \* the PermissionCheckResult of the last CheckPermission
    \* ---- ClaudeAcpAgent
    allowBypass,    \* a.allowBypass, fixed by NewClaudeAcpAgent
    sessions,       \* keys of a.sessions
    sess,           \* per session: cancelled, streamEventsReceived, permissionMode
    toolUseCache,   \* a.toolUseCache: tool-use id -> tool name ("" when absent)
    conn,           \* the notifications handed to a.conn.SessionUpdate, in order
    advertised,     \* per session: the AvailableModes NewSession answered
    lastSetMode,    \* the last SetSessionMode request and whether it succeeded
    \* ---- ClaudeCodeProcess of each session
    proc,           \* stdin open, child exited, stdout closed by Wait, done, mu
    sent,           \* per session: user messages written to the child
    stdout,         \* per session: lines the child wrote that no one has read
    emitted,        \* per session: how many lines the child has written
    \* ---- the calls in progress
    prompts,        \* per Prompt task: position, session, response read, outcome
    cancels,        \* per Cancel task: position, session
    calls,          \* how many Prompt calls were made
    \* ---- the diff engine: one createUnifiedDiff / parseUnifiedDiff call
    oldContent,     \* the old text
    newContent,     \* the new text
    diffText,       \* the text createUnifiedDiff returned
    patches,        \* the patches parseUnifiedDiff returned
    diffPc,         \* "start", "created" or "parsed"
    toolUpdate,     \* the ToolUpdate made of the result of the Edit call
    \* ---- built-in tool handlers (part_001)
    bash,           \* one handleBash call, its terminal and its client
    edit,           \* one handleEdit call and the file it edits
    toolCall,       \* one toolInfoFromToolUse call: name, input and the ToolInfo returned
    \* ---- SettingsManager: the settings files and what was loaded from them
    settingsFiles,  \* per source: the settings file on disk
    sourceSettings, \* per source: userSettings .. enterpriseSettings
    merged,         \* s.mergedSettings, the whole ClaudeCodeSettings
    initialized,    \* s.initialized
    fileWrites,     \* how many times a settings file was rewritten
    \* ---- one extractLinesWithByteLimit call
    fullContent,    \* the text given
    maxContentLength, \* the limit given
    extractResult   \* the ExtractLinesResult returned (NoExtract before)

ruleVars  == <<ruleStr, parsed, matched>>
invVars   == <<toolName, toolInput>>
permVars  == <<mergedSettings, checkResult>>
agentVars == <<allowBypass, sessions, sess, toolUseCache, conn, advertised, lastSetMode>>
procVars  == <<proc, sent, stdout, emitted>>
taskVars  == <<prompts, cancels, calls>>
machineVars == <<agentVars, procVars, taskVars>>
diffVars  == <<oldContent, newContent, diffText, patches, diffPc, toolUpdate>>
settingsVars == <<settingsFiles, sourceSettings, merged, initialized, fileWrites>>
extractVars == <<fullContent, maxContentLength, extractResult>>
toolVars  == <<bash, edit, toolCall>>
utilVars  == <<diffVars, settingsVars, extractVars, toolVars>>
vars == <<ruleVars, invVars, permVars, machineVars, utilVars>>

DiffIdle ==
    /\ oldContent = <<>>
    /\ newContent = <<>>
    /\ diffText = <<>>
    /\ patches = <<>>
    /\ diffPc = "start"
    /\ toolUpdate = [nil |-> TRUE]

\* The four sources, in the order of loadAllSettings and mergeSettings.
SettingsSources == << "user", "project", "local", "enterprise" >>

NilPermissions == [nil |-> TRUE]

NilEnv == [nil |-> TRUE]

ClaudeCodeSettings(permissions, env, model) ==
    [Permissions |-> permissions, Env |-> env, Model |-> model]

\* ClaudeCodeSettings{}
EmptySettings == ClaudeCodeSettings(NilPermissions, NilEnv, "")

MissingFile == [kind |-> "missing", json |-> EmptySettings]

SettingsIdle ==
    /\ settingsFiles = [i \in 1..Len(SettingsSources) |-> MissingFile]
    /\ sourceSettings = [i \in 1..Len(SettingsSources) |-> EmptySettings]
    /\ merged = EmptySettings
    /\ initialized = FALSE
    /\ fileWrites = 0

ExtractLinesResult(content, limited, lines) ==
    [Content |-> content, WasLimited |-> limited, LinesRead |-> lines]

NoExtract == [nil |-> TRUE]

ExtractIdle == fullContent = <<>> /\ maxContentLength = 0 /\ extractResult = NoExtract

\* No handleBash call yet, and no terminal.
IdleBash ==
    [pc |-> "idle", command |-> FALSE, background |-> FALSE, timeoutMs |-> 0,
     terminalID |-> "", terminals |-> {}, running |-> FALSE, exit |-> "none",
     deadline |-> FALSE, waitFailed |-> FALSE, status |-> "", exitCode |-> -1,
     signal |-> "", outputOk |-> FALSE, kills |-> <<>>, releases |-> <<>>,
     text |-> <<>>, isError |-> FALSE, err |-> FALSE]

\* replaceAndCalculateLocation has not been called.
NoReplace == [nil |-> TRUE]

\* No handleEdit call yet; file is the content of the file of the call.
IdleEdit ==
    [pc |-> "idle", file |-> <<>>, filePath |-> "", oldString |-> <<>>,
     newString |-> <<>>, replaceAll |-> FALSE, fileContent |-> <<>>,
     replaced |-> NoReplace, writes |-> <<>>, text |-> <<>>, isError |-> FALSE,
     err |-> FALSE]

\* toolInfoFromToolUse has not returned.
NoInfo == [nil |-> TRUE]

\* No toolInfoFromToolUse call; the empty input is the empty map.
IdleToolCall == [name |-> "", input |-> <<>>, info |-> NoInfo, called |-> FALSE]

ToolIdle == bash = IdleBash /\ edit = IdleEdit /\ toolCall = IdleToolCall

UtilIdle == DiffIdle /\ SettingsIdle /\ ExtractIdle /\ ToolIdle

(***************************************************************************)
(* Bounds of the model.                                                    *)
(***************************************************************************)
MaxCmdLen    == 3   \* longest shell command, in symbols
MaxPrefixLen == 1   \* longest argument of a generated Bash rule
MaxRules     == 2   \* rules in the merged deny + allow + ask lists
MaxFileWrites == 1  \* rewrites of a settings file between two loads
MaxContentLen == 5  \* longest text given to extractLinesWithByteLimit
MaxLimit     == 6   \* largest byte limit given to it

(***************************************************************************)
(* Text helpers (package strings).                                         *)
(***************************************************************************)
SeqsUpTo(S, n) == UNION {[1..k -> S] : k \in 0..n}

HasPrefix(s, p) == Len(s) >= Len(p) /\ SubSeq(s, 1, Len(p)) = p

HasSuffix(s, p) == Len(s) >= Len(p) /\ SubSeq(s, Len(s) - Len(p) + 1, Len(s)) = p

Contains(s, sub) ==
    \E i \in 1..(Len(s) - Len(sub) + 1) : SubSeq(s, i, i + Len(sub) - 1) = sub

IndexOf(s, c) ==
    IF \E i \in 1..Len(s) : s[i] = c
    THEN CHOOSE i \in 1..Len(s) : s[i] = c /\ \A j \in 1..(i - 1) : s[j] # c
    ELSE 0

(***************************************************************************)
(* Permission rule engine, src/tools.go.                                   *)
(***************************************************************************)
ACPToolNamePrefix == <<"mcp__acp__">>

AcpTool(name) == ACPToolNamePrefix \o <<name>>

\* The backquote character (a string of the model cannot hold it).
Backquote == "BACKQUOTE"

\* shellOperators, in the order of the source.
shellOperators ==
    << <<"&", "&">>, <<"|", "|">>, <<";">>, <<"|">>, <<"$", "(">>, <<Backquote>>, <<"\n">> >>

fileEditingTools == {AcpTool("Edit"), AcpTool("Write")}

fileReadingTools == {AcpTool("Read")}

\* Symbols that are runs of word characters (\w+); every other symbol is a
\* single non-word character.
WordSymbols ==
    {"Bash", "Read", "Edit", "Write", "KillShell", "BashOutput", "mcp__acp__", "a", "test", "other"}

IsWord(s) == Len(s) >= 1 /\ \A i \in 1..Len(s) : s[i] \in WordSymbols

NoRule == [toolName |-> <<"?">>, argument |-> <<>>, isWildcard |-> FALSE]

ParsedRule(name, arg, wild) == [toolName |-> name, argument |-> arg, isWildcard |-> wild]

\* ruleRegexp ^(\w+)(?:\((.+)\))?$ : the submatches <<name, argument>>, or <<>>
\* when the rule does not match.  "." matches every symbol except "\n", and
\* "$" only the end of the text.
ruleRegexpMatch(rule) ==
    LET open == IndexOf(rule, "(")
        n    == Len(rule)
    IN  IF IsWord(rule) THEN <<rule, <<>>>>
        ELSE IF /\ open > 1
                /\ IsWord(SubSeq(rule, 1, open - 1))
                /\ n >= open + 2
                /\ rule[n] = ")"
                /\ \A i \in (open + 1)..(n - 1) : rule[i] # "\n"
             THEN <<SubSeq(rule, 1, open - 1), SubSeq(rule, open + 1, n - 1)>>
             ELSE <<>>

parseRule(rule) ==
    LET matches == ruleRegexpMatch(rule)
    IN  IF matches = <<>> THEN ParsedRule(rule, <<>>, FALSE)
        ELSE LET name     == matches[1]
                 argument == matches[2]
             IN  IF argument # <<>> /\ HasSuffix(argument, <<":", "*">>)
                 THEN ParsedRule(name, SubSeq(argument, 1, Len(argument) - 2), TRUE)
                 ELSE ParsedRule(name, argument, FALSE)

containsShellOperator(str) ==
    \E k \in 1..Len(shellOperators) : Contains(str, shellOperators[k])

\* Directories of the path model.
HomeDir == <<"/", "home">>
TestCwd == <<"/", "test">>

\* filepath.Clean on the paths of the model: repeated separators, "."
\* segments and a trailing separator are removed.
RECURSIVE CleanSegs(_)
CleanSegs(p) ==
    IF p = <<>> THEN <<>>
    ELSE IF p[1] = "/" THEN
            LET rest == CleanSegs(Tail(p))
            IN  IF rest = <<>> \/ rest[1] = "/" THEN rest ELSE <<"/">> \o rest
    ELSE IF p[1] = "." /\ (Len(p) = 1 \/ p[2] = "/") THEN CleanSegs(Tail(p))
    ELSE <<p[1]>> \o CleanSegs(Tail(p))

Clean(p) ==
    LET c == CleanSegs(p)
    IN  IF p # <<>> /\ p[1] = "/"
        THEN (IF c = <<>> THEN <<"/">> ELSE c)
        ELSE (IF c = <<>> THEN <<".">> ELSE Tail(c))

IsAbs(p) == p # <<>> /\ p[1] = "/"

Join(dir, rest) == Clean(IF rest = <<>> THEN dir ELSE dir \o <<"/">> \o rest)

normalizePath(filePath, cwd) ==
    LET joined ==
            IF HasPrefix(filePath, <<"~", "/">>)
            THEN Join(HomeDir, SubSeq(filePath, 3, Len(filePath)))
            ELSE IF HasPrefix(filePath, <<".", "/">>)
            THEN Join(cwd, SubSeq(filePath, 3, Len(filePath)))
            ELSE IF ~IsAbs(filePath) THEN Join(cwd, filePath)
            ELSE filePath
    IN  Clean(joined)

\* glob.Compile(pattern, separator).Match(path): a star stands for any run of
\* symbols without a separator, two stars for any run of symbols; every other
\* symbol of the model is literal.
RECURSIVE GlobMatch(_, _)
GlobMatch(pat, s) ==
    IF pat = <<>> THEN s = <<>>
    ELSE IF HasPrefix(pat, <<"*", "*">>)
    THEN \E k \in 0..Len(s) : GlobMatch(SubSeq(pat, 3, Len(pat)), SubSeq(s, k + 1, Len(s)))
    ELSE IF pat[1] = "*"
    THEN \E k \in 0..Len(s) :
            /\ \A i \in 1..k : s[i] # "/"
            /\ GlobMatch(Tail(pat), SubSeq(s, k + 1, Len(s)))
    ELSE s # <<>> /\ s[1] = pat[1] /\ GlobMatch(Tail(pat), Tail(s))

matchesGlob(pattern, filePath, cwd) ==
    GlobMatch(normalizePath(pattern, cwd), normalizePath(filePath, cwd))

\* toolArgAccessors: the tools that have an accessor, and what it extracts.
HasArgAccessor(tool) ==
    tool \in {AcpTool("Read"), AcpTool("Edit"), AcpTool("Write"), AcpTool("Bash")}

argAccessor(tool, input) ==
    IF tool = AcpTool("Bash") THEN input.command ELSE input.file_path

\* A rule that applies to the tool of its own name.
ruleAppliesToTool_ByName(rule, tool) == tool = ACPToolNamePrefix \o rule.toolName

ruleAppliesToTool(rule, tool) ==
    CASE rule.toolName = <<"Bash">> -> tool = AcpTool("Bash")
      [] rule.toolName = <<"Edit">> -> tool \in fileEditingTools
      [] rule.toolName = <<"Read">> -> tool \in fileReadingTools
      [] OTHER -> FALSE

\* The Bash branch of matchesRule.
matchesBash(rule, actualArg) ==
    IF rule.isWildcard
    THEN /\ HasPrefix(actualArg, rule.argument)
         /\ ~containsShellOperator(SubSeq(actualArg, Len(rule.argument) + 1, Len(actualArg)))
    ELSE actualArg = rule.argument

matchesRule(rule, tool, input, cwd) ==
    IF ~ruleAppliesToTool(rule, tool) THEN FALSE
    ELSE IF rule.argument = <<>> THEN TRUE
    ELSE IF ~HasArgAccessor(tool) THEN TRUE
    ELSE LET actualArg == argAccessor(tool, input)
         IN  IF actualArg = <<>> THEN FALSE
             ELSE IF tool = AcpTool("Bash") THEN matchesBash(rule, actualArg)
             ELSE matchesGlob(rule.argument, actualArg, cwd)

\* PermissionCheckResult
Result(decision, rule, source) == [Decision |-> decision, Rule |-> rule, Source |-> source]

NoPermissions == [nil |-> TRUE]

\* The first rule of a list that matches the invocation, 0 when none does.
FirstMatch(rules, tool, input, cwd) ==
    IF \E i \in 1..Len(rules) : matchesRule(parseRule(rules[i]), tool, input, cwd)
    THEN CHOOSE i \in 1..Len(rules) :
            /\ matchesRule(parseRule(rules[i]), tool, input, cwd)
            /\ \A j \in 1..(i - 1) : ~matchesRule(parseRule(rules[j]), tool, input, cwd)
    ELSE 0

\* Mutant: the allow rules are consulted before the deny rules.
CheckPermissionResult_AllowFirst(permissions, cwd, tool, input) ==
    IF ~HasPrefix(tool, ACPToolNamePrefix) THEN Result("ask", <<>>, "")
    ELSE IF permissions = NoPermissions THEN Result("ask", <<>>, "")
    ELSE LET d == FirstMatch(permissions.Deny, tool, input, cwd)
             a == FirstMatch(permissions.Allow, tool, input, cwd)
             k == FirstMatch(permissions.Ask, tool, input, cwd)
         IN  IF a > 0 THEN Result("allow", permissions.Allow[a], "allow")
             ELSE IF d > 0 THEN Result("deny", permissions.Deny[d], "deny")
             ELSE IF k > 0 THEN Result("ask", permissions.Ask[k], "ask")
             ELSE Result("ask", <<>>, "")

\* Mutant: a bare tool name is given the namespace instead of being answered
\* with ask at once.
CheckPermissionResult_AddNamespace(permissions, cwd, tool, input) ==
    LET t == IF HasPrefix(tool, ACPToolNamePrefix) THEN tool ELSE ACPToolNamePrefix \o tool
    IN  IF permissions = NoPermissions THEN Result("ask", <<>>, "")
        ELSE LET d == FirstMatch(permissions.Deny, t, input, cwd)
                 a == FirstMatch(permissions.Allow, t, input, cwd)
                 k == FirstMatch(permissions.Ask, t, input, cwd)
             IN  IF d > 0 THEN Result("deny", permissions.Deny[d], "deny")
                 ELSE IF a > 0 THEN Result("allow", permissions.Allow[a], "allow")
                 ELSE IF k > 0 THEN Result("ask", permissions.Ask[k], "ask")
                 ELSE Result("ask", <<>>, "")

CheckPermissionResult(permissions, cwd, tool, input) ==
    IF ~HasPrefix(tool, ACPToolNamePrefix) THEN Result("ask", <<>>, "")
    ELSE IF permissions = NoPermissions THEN Result("ask", <<>>, "")
    ELSE LET d == FirstMatch(permissions.Deny, tool, input, cwd)
             a == FirstMatch(permissions.Allow, tool, input, cwd)
             k == FirstMatch(permissions.Ask, tool, input, cwd)
         IN  IF d > 0 THEN Result("deny", permissions.Deny[d], "deny")
             ELSE IF a > 0 THEN Result("allow", permissions.Allow[a], "allow")
             ELSE IF k > 0 THEN Result("ask", permissions.Ask[k], "ask")
             ELSE Result("ask", <<>>, "")

(***************************************************************************)
(* Session state machine: data.                                            *)
(* src/unnamed/part_002 (agent), src/unnamed/part_004 (Session),           *)
(* src/tools.go (ClaudeCodeProcess, toAcpNotifications).                   *)
(***************************************************************************)
MaxEvents     == 1   \* lines a child writes, per session, under Spec
MaxRaceEvents == 2   \* lines the child writes under SpecRace
MaxCloseEvents == 1  \* lines the child writes under SpecClose
MaxLoopEvents == 2   \* lines the child writes under SpecLoop
MaxCacheEvents == 3  \* lines the child writes under SpecCache
MaxTurnEvents == 3   \* lines the child writes under SpecTurn
MaxPrompts    == 2   \* Prompt calls under Spec and SpecRace
MaxTurns      == 2   \* Prompt calls under SpecTurn
MaxMsgEvents  == 3   \* lines the child writes under SpecMsg
MaxSharedEvents == 2 \* lines each child writes under SpecShared
MaxDiffLines  == 2   \* lines of a short text given to the diff engine
LongLen       == 9   \* lines of the long text given to the diff engine
MaxEdits      == 2   \* edited lines of the long text

SessionIds == {"s1", "s2"}
PromptIds  == {"p1", "p2"}
CancelIds  == {"c1", "c2"}

\* The Cancel call of the specifications that have one.
OneCancel  == {"c1"}
ToolIds    == {"t1", "t2"}

validModes == <<"default", "acceptEdits", "plan", "dontAsk", "bypassPermissions">>

filterModes(allow) ==
    IF allow THEN validModes
    ELSE SelectSeq(validModes, LAMBDA m : m # "bypassPermissions")

ModeIds(modes) == {modes[i] : i \in 1..Len(modes)}

\* Session
Session(cancelled, seen, mode) ==
    [cancelled |-> cancelled, streamEventsReceived |-> seen, permissionMode |-> mode]

NoSession == Session(FALSE, FALSE, "")

\* ClaudeCodeProcess: stdin is open, the child has exited, Wait has closed the
\* stdout pipe, how often done was closed, who holds p.mu, and whether the
\* scanner has met the end of the stream.
Process(stdinOpen, exited, stdoutClosed, done, mu, scannerEOF) ==
    [stdinOpen |-> stdinOpen, exited |-> exited, stdoutClosed |-> stdoutClosed,
     done |-> done, mu |-> mu, scannerEOF |-> scannerEOF]

NoProcess == Process(FALSE, TRUE, TRUE, 0, "free", TRUE)

NewProcess == Process(TRUE, FALSE, FALSE, 0, "free", FALSE)

\* Content blocks.
\* todos is the number of entries of input.todos of a tool use.
Block(type, text, id, name, todos, isError) ==
    [type |-> type, text |-> text, id |-> id, name |-> name, todos |-> todos,
     is_error |-> isError]

TextBlock(type, t) == Block(type, t, "", "", 0, FALSE)

ThinkingBlock(type) == Block(type, <<>>, "", "", 0, FALSE)

ToolUse(id, name, todos) == Block("tool_use", <<>>, id, name, todos, FALSE)

ToolResult(id, isError) == Block("tool_result", <<>>, id, "", 0, isError)

IgnoredBlock(type) == Block(type, <<>>, "", "", 0, FALSE)

ToolUseTypes == {"tool_use", "server_tool_use", "mcp_tool_use"}

ToolResultTypes ==
    {"tool_result", "tool_search_tool_result", "web_fetch_tool_result",
     "web_search_tool_result", "code_execution_tool_result",
     "bash_code_execution_tool_result", "text_editor_code_execution_tool_result",
     "mcp_tool_result"}

\* Message content: a plain string or a list of blocks.
StringContent(text) == [kind |-> "string", text |-> text, blocks |-> <<>>]

BlockContent(blocks) == [kind |-> "blocks", text |-> <<>>, blocks |-> blocks]

\* SDKResponse: one parsed line of the child.
\* seq is the position of the line in the child's output.
Response(type, subtype, isError, result, errors, role, content, event) ==
    [type |-> type, subtype |-> subtype, is_error |-> isError, result |-> result,
     errors |-> errors, role |-> role, content |-> content, event |-> event,
     seq |-> 0]

NoContent == [kind |-> "none", text |-> <<>>, blocks |-> <<>>]

Simple(type) == Response(type, "", FALSE, <<>>, <<>>, "", NoContent, "")

ResultEvent(subtype, isError, result, errors) ==
    Response("result", subtype, isError, result, errors, "", NoContent, "")

MessageEvent(type, content) == Response(type, "", FALSE, <<>>, <<>>, type, content, "")

StreamEvent(eventType, block) ==
    Response("stream_event", "", FALSE, <<>>, <<>>, "", BlockContent(<<block>>), eventType)

\* What ReadMessage hands back besides a response.
NoResp      == Simple("#none")
EndOfStream == Simple("#eof")
ReadError   == Simple("#error")
Unparsable  == Simple("#unparsable")

\* acp.SessionNotification; blk is the place of the source block in its event
\* and ev the position of that event in the child's output.
Notification(sid, kind, id, status, blk) ==
    [sessionId |-> sid, kind |-> kind, id |-> id, status |-> status, blk |-> blk,
     ev |-> 0]

LoginText == <<"Please run /login">>

\* The tool-use cache before any tool use.
EmptyCache == [t \in ToolIds |-> ""]

\* Mutant of BlockNotification: a tool result is not looked up in the cache.
BlockNotification_NoLookup(b, i, role, sid, cache) ==
    CASE b.type \in {"text", "text_delta"} ->
            << Notification(sid,
                            IF role = "assistant" THEN "agent_message_chunk"
                            ELSE "user_message_chunk", "", "", i) >>
      [] b.type \in {"thinking", "thinking_delta"} ->
            << Notification(sid, "agent_thought_chunk", "", "", i) >>
      [] b.type \in ToolUseTypes ->
            IF b.name = "TodoWrite"
            THEN (IF b.todos > 0 THEN << Notification(sid, "plan", "", "", i) >>
                  ELSE <<>>)
            ELSE << Notification(sid, "tool_call", b.id, "pending", i) >>
      [] b.type \in ToolResultTypes ->
            << Notification(sid, "tool_call_update", b.id,
                            IF b.is_error THEN "failed" ELSE "completed", i) >>
      [] OTHER -> <<>>

\* One block of toAcpNotifications: the notification it yields, if any.
BlockNotification(b, i, role, sid, cache) ==
    CASE b.type \in {"text", "text_delta"} ->
            << Notification(sid,
                            IF role = "assistant" THEN "agent_message_chunk"
                            ELSE "user_message_chunk", "", "", i) >>
      [] b.type \in {"thinking", "thinking_delta"} ->
            << Notification(sid, "agent_thought_chunk", "", "", i) >>
      [] b.type \in ToolUseTypes ->
            IF b.name = "TodoWrite"
            THEN (IF b.todos > 0 THEN << Notification(sid, "plan", "", "", i) >>
                  ELSE <<>>)
            ELSE << Notification(sid, "tool_call", b.id, "pending", i) >>
      [] b.type \in ToolResultTypes ->
            IF cache[b.id] = "" \/ cache[b.id] = "TodoWrite" THEN <<>>
            ELSE << Notification(sid, "tool_call_update", b.id,
                                 IF b.is_error THEN "failed" ELSE "completed", i) >>
      [] OTHER -> <<>>

\* The block loop of toAcpNotifications, from block i on.
RECURSIVE ToAcpBlocks(_, _, _, _, _)
ToAcpBlocks(blocks, i, role, sid, cache) ==
    IF i > Len(blocks) THEN [out |-> <<>>, cache |-> cache]
    ELSE LET b      == blocks[i]
             one    == BlockNotification(b, i, role, sid, cache)
             cache2 == IF b.type \in ToolUseTypes
                       THEN [cache EXCEPT ![b.id] = b.name] ELSE cache
             rest   == ToAcpBlocks(blocks, i + 1, role, sid, cache2)
         IN  [out |-> one \o rest.out, cache |-> rest.cache]

Reverse(seq) == [i \in 1..Len(seq) |-> seq[Len(seq) + 1 - i]]

toAcpNotifications_Reversed(content, role, sid, cache) ==
    LET r == ToAcpBlocks(content.blocks, 1, role, sid, cache)
    IN  IF content.kind = "blocks" THEN [out |-> Reverse(r.out), cache |-> r.cache]
        ELSE [out |-> <<>>, cache |-> cache]

toAcpNotifications(content, role, sid, cache) ==
    IF content.kind = "string"
    THEN [out |-> << Notification(sid,
                        IF role = "assistant" THEN "agent_message_chunk"
                        ELSE "user_message_chunk", "", "", 1) >>,
          cache |-> cache]
    ELSE IF content.kind = "blocks" THEN ToAcpBlocks(content.blocks, 1, role, sid, cache)
    ELSE [out |-> <<>>, cache |-> cache]

streamEventToAcpNotifications(resp, sid, cache) ==
    IF resp.event \in {"content_block_start", "content_block_delta"}
    THEN toAcpNotifications(resp.content, "assistant", sid, cache)
    ELSE [out |-> <<>>, cache |-> cache]

isSyntheticLoginPrompt(content) ==
    /\ content.kind = "blocks"
    /\ Len(content.blocks) = 1
    /\ content.blocks[1].type = "text"
    /\ Contains(content.blocks[1].text, LoginText)

FilterTextBlocks(blocks) ==
    SelectSeq(blocks, LAMBDA b : b.type \notin {"text", "thinking"})

\* A handleMessage that takes the entry of every tool result it has handled
\* out of the cache.
handleMessage_Consume(resp, sid, streamSeen, cache) ==
    LET blocks == resp.content.blocks
        r      == toAcpNotifications(resp.content, resp.role, sid, cache)
        used   == {blocks[i].id : i \in {j \in 1..Len(blocks) : blocks[j].type \in ToolResultTypes}}
    IN  [out |-> r.out,
         cache |-> [t \in ToolIds |-> IF t \in used THEN "" ELSE r.cache[t]]]

\* handleMessage: the notifications forwarded and the cache afterwards.
handleMessage(resp, sid, streamSeen, cache) ==
    LET content == resp.content
        text    == IF content.kind = "string" THEN content.text ELSE <<>>
        none    == [out |-> <<>>, cache |-> cache]
    IN  IF content.kind = "none" THEN none
        ELSE IF text # <<>> /\ Contains(text, <<"<local-command-stdout>">>)
        THEN (IF Contains(text, <<"Context Usage">>)
              THEN toAcpNotifications(content, "assistant", sid, cache)
              ELSE none)
        ELSE IF text # <<>> /\ Contains(text, <<"<local-command-stderr>">>) THEN none
        ELSE IF resp.type = "user" /\ content.kind = "string" THEN none
        ELSE IF /\ resp.type = "user"
                /\ Len(content.blocks) = 1
                /\ content.blocks[1].type = "text" THEN none
        ELSE IF resp.type = "assistant" /\ isSyntheticLoginPrompt(content) THEN none
        ELSE IF resp.type = "assistant" /\ text = <<>> /\ streamSeen /\ content.kind = "blocks"
        THEN toAcpNotifications(BlockContent(FilterTextBlocks(content.blocks)),
                                resp.role, sid, cache)
        ELSE toAcpNotifications(content, resp.role, sid, cache)

\* Prompt outcomes: a stop reason, or an error.
Stop(reason) == [kind |-> "stop", reason |-> reason, data |-> <<>>]

Failure(reason, data) == [kind |-> "error", reason |-> reason, data |-> data]

NoOutcome == [kind |-> "none", reason |-> "", data |-> <<>>]

\* strings.Join(errors, ", ")
RECURSIVE JoinErrors(_)
JoinErrors(errors) ==
    IF errors = <<>> THEN <<>>
    ELSE IF Len(errors) = 1 THEN errors[1]
    ELSE errors[1] \o <<", ">> \o JoinErrors(Tail(errors))

ErrorMessage(resp) ==
    IF JoinErrors(resp.errors) = <<>> THEN <<resp.subtype>> ELSE JoinErrors(resp.errors)

handleResult_NoLogin(resp) ==
    IF resp.subtype = "success"
    THEN (IF resp.is_error THEN Failure("internal", resp.result) ELSE Stop("end_turn"))
    ELSE IF resp.subtype \in {"error_max_turns", "error_max_budget_usd",
                              "error_max_structured_output_retries"}
    THEN (IF resp.is_error THEN Failure("internal", ErrorMessage(resp))
          ELSE Stop("max_turn_requests"))
    ELSE Stop("end_turn")

handleResult(resp) ==
    CASE resp.subtype = "success" ->
            IF Contains(resp.result, LoginText) THEN Failure("auth_required", <<>>)
            ELSE IF resp.is_error THEN Failure("internal", resp.result)
            ELSE Stop("end_turn")
      [] resp.subtype \in {"error_max_turns", "error_max_budget_usd",
                           "error_max_structured_output_retries"} ->
            IF resp.is_error THEN Failure("internal", ErrorMessage(resp))
            ELSE Stop("max_turn_requests")
      [] resp.subtype = "error_during_execution" ->
            IF resp.is_error THEN Failure("internal", ErrorMessage(resp))
            ELSE Stop("end_turn")
      [] OTHER -> Stop("end_turn")

\* Tasks.
\* A Prompt call: where it stands, its session, the response ReadMessage gave
\* it last, what it returned, whether its context is done, and the events it
\* has read in this turn.  cancelSeen records that a Cancel of its session
\* set the flag while the call was in flight.
PromptTask(pc, s, resp, outcome, ctxDone, cancelSeen, log) ==
    [pc |-> pc, session |-> s, resp |-> resp, outcome |-> outcome,
     ctxDone |-> ctxDone, cancelSeen |-> cancelSeen, log |-> log]

IdlePrompt == PromptTask("idle", "", NoResp, NoOutcome, FALSE, FALSE, <<>>)

CancelTask(pc, s) == [pc |-> pc, session |-> s]

IdleCancel == CancelTask("idle", "")

NoSetMode == [session |-> "", mode |-> "", ok |-> FALSE, cancelledOthers |-> {}]

\* The machine before NewClaudeAcpAgent has served any request.
MachineStart ==
    /\ sessions = {}
    /\ sess = [s \in SessionIds |-> NoSession]
    /\ toolUseCache = EmptyCache
    /\ conn = <<>>
    /\ advertised = [s \in SessionIds |-> <<>>]
    /\ lastSetMode = NoSetMode
    /\ proc = [s \in SessionIds |-> NoProcess]
    /\ sent = [s \in SessionIds |-> 0]
    /\ stdout = [s \in SessionIds |-> <<>>]
    /\ emitted = [s \in SessionIds |-> 0]
    /\ prompts = [p \in PromptIds |-> IdlePrompt]
    /\ cancels = [c \in CancelIds |-> IdleCancel]
    /\ calls = 0

MachineIdle == allowBypass = TRUE /\ MachineStart

(***************************************************************************)
(* Inputs of the rule engine.                                              *)
(***************************************************************************)
CmdAlphabet == {"a", "&", "|", ";", "$", "(", Backquote, "\n"}

Commands == SeqsUpTo(CmdAlphabet, MaxCmdLen)

RuleArgs == SeqsUpTo(CmdAlphabet, MaxPrefixLen)

RuleNames == {"Bash", "Read", "Edit", "Write", "KillShell"}

Paths == { <<".", "/", ".env">>, <<"/", "test", "/", ".env">>, <<"other">>, <<"/", "home", "/", ".env">> }

PathPatterns == { <<".", "/", ".env">>, <<"*">>, <<"*", "*">>, <<"~", "/", ".env">>, <<"/", "test", "/", "*">> }

BashRule(arg) == <<"Bash", "(">> \o arg \o <<")">>

BashPrefixRule(prefix) == <<"Bash", "(">> \o prefix \o <<":", "*", ")">>

RuleStrings ==
    {<<n>> : n \in RuleNames}
    \cup {BashRule(a) : a \in RuleArgs}
    \cup {BashPrefixRule(a) : a \in RuleArgs}
    \cup {<<n, "(">> \o q \o <<")">> : n \in {"Read", "Edit", "Write"}, q \in PathPatterns}
    \cup {<<"BashOutput">>, AcpTool("Bash")}

Input(command, path) == [command |-> command, file_path |-> path]

Invocation(tool, input) == [tool |-> tool, input |-> input]

Invocations ==
    {Invocation(AcpTool("Bash"), Input(c, <<>>)) : c \in Commands}
    \cup {Invocation(<<"Bash">>, Input(c, <<>>)) : c \in {<<>>, <<"a">>}}
    \cup {Invocation(AcpTool(n), Input(<<>>, q)) :
            n \in {"Read", "Edit", "Write"}, q \in Paths \cup {<<>>}}
    \cup {Invocation(AcpTool(n), Input(<<"a">>, <<>>)) : n \in {"KillShell", "BashOutput"}}
    \cup {Invocation(AcpTool("KillShell"), Input(<<>>, <<>>))}

\* The rules and invocations of the CheckPermission runs.
PermRules ==
    { <<"Bash">>, BashRule(<<"a">>), BashPrefixRule(<<"a">>), BashPrefixRule(<<>>),
      <<"Read">>, <<"Read", "(", ".", "/", ".env", ")">>, <<"Edit">>, <<"Write">> }

PermCommands == { <<>>, <<"a">>, <<"a", "a">>, <<"a", "&", "&">>, <<"&">> }

PermInvocations ==
    {Invocation(AcpTool("Bash"), Input(c, <<>>)) : c \in PermCommands}
    \cup {Invocation(<<n>>, Input(<<"a">>, <<"other">>)) : n \in {"Bash", "Read", "Write"}}
    \cup {Invocation(AcpTool(n), Input(<<>>, q)) :
            n \in {"Read", "Edit", "Write"}, q \in {<<".", "/", ".env">>, <<"other">>}}

Permissions(deny, allow, ask) == [Deny |-> deny, Allow |-> allow, Ask |-> ask]

\* The rules of one list among tagged rules <<list, rule>>, in order.
RECURSIVE RulesOf(_, _)
RulesOf(tagged, list) ==
    IF tagged = <<>> THEN <<>>
    ELSE (IF tagged[1][1] = list THEN <<tagged[1][2]>> ELSE <<>>)
         \o RulesOf(Tail(tagged), list)

\* Every merged permission value with at most MaxRules rules in its lists.
MergedPermissions ==
    {Permissions(RulesOf(t, "deny"), RulesOf(t, "allow"), RulesOf(t, "ask")) :
        t \in SeqsUpTo({"deny", "allow", "ask"} \X PermRules, MaxRules)}

NoResult == Result("none", <<>>, "")

(***************************************************************************)
(* SpecRule: one rule string is parsed and matched against one invocation, *)
(* as the tests of settings_test.go do.                                    *)
(***************************************************************************)
RuleIdle == ruleStr = <<"Bash">> /\ parsed = NoRule /\ matched = "none"

PermIdle == mergedSettings = NoPermissions /\ checkResult = NoResult

InitRule ==
    /\ ruleStr \in RuleStrings
    /\ parsed = NoRule
    /\ matched = "none"
    /\ \E inv \in Invocations : toolName = inv.tool /\ toolInput = inv.input
    /\ PermIdle
    /\ MachineIdle
    /\ UtilIdle

ParseRule ==
    /\ parsed = NoRule
    /\ parsed' = parseRule(ruleStr)
    /\ UNCHANGED <<ruleStr, matched, invVars, permVars, machineVars, utilVars>>

MatchesRule ==
    /\ parsed # NoRule
    /\ matched = "none"
    /\ matched' = IF matchesRule(parsed, toolName, toolInput, TestCwd) THEN "yes" ELSE "no"
    /\ UNCHANGED <<ruleStr, parsed, invVars, permVars, machineVars, utilVars>>

NextRule == ParseRule \/ MatchesRule

SpecRule == InitRule /\ [][NextRule]_vars

(***************************************************************************)
(* SpecPerm: CheckPermission on a settings manager whose merged settings   *)
(* hold any rule lists (NoPermissions before Initialize).                  *)
(***************************************************************************)
InitPerm ==
    /\ mergedSettings \in {NoPermissions} \cup MergedPermissions
    /\ checkResult = NoResult
    /\ \E inv \in PermInvocations : toolName = inv.tool /\ toolInput = inv.input
    /\ RuleIdle
    /\ MachineIdle
    /\ UtilIdle

CheckPermission ==
    /\ checkResult = NoResult
    /\ checkResult' = CheckPermissionResult(mergedSettings, TestCwd, toolName, toolInput)
    /\ UNCHANGED <<mergedSettings, invVars, ruleVars, machineVars, utilVars>>

NextPerm == CheckPermission

SpecPerm == InitPerm /\ [][NextPerm]_vars

(***************************************************************************)
(* Claims on the permission rule engine.                                   *)
(***************************************************************************)
Matching(rules) ==
    {i \in 1..Len(rules) : matchesRule(parseRule(rules[i]), toolName, toolInput, TestCwd)}

Min(S) == CHOOSE x \in S : \A y \in S : x <= y

Checked == checkResult # NoResult

Namespaced == HasPrefix(toolName, ACPToolNamePrefix)

\* C1: for a namespaced tool the decision is deny with the text of the first
\* matching deny rule when a deny rule matches, otherwise allow when an allow
\* rule matches, otherwise ask when an ask rule matches, otherwise ask with
\* no rule; only the three merged lists decide it.
C1_DecisionPrecedence ==
    (Checked /\ Namespaced) =>
        IF mergedSettings = NoPermissions
        THEN checkResult.Decision = "ask" /\ checkResult.Rule = <<>>
        ELSE IF Matching(mergedSettings.Deny) # {}
        THEN /\ checkResult.Decision = "deny"
             /\ checkResult.Rule = mergedSettings.Deny[Min(Matching(mergedSettings.Deny))]
        ELSE IF Matching(mergedSettings.Allow) # {}
        THEN checkResult.Decision = "allow"
        ELSE IF Matching(mergedSettings.Ask) # {}
        THEN checkResult.Decision = "ask" /\ checkResult.Rule # <<>>
        ELSE checkResult.Decision = "ask" /\ checkResult.Rule = <<>>

\* C1 witness: a deny rule that is not the first of its list and an allow
\* rule both match, and the check has answered.
C1_Witness ==
    /\ Checked /\ Namespaced /\ mergedSettings # NoPermissions
    /\ Matching(mergedSettings.Deny) # {}
    /\ Min(Matching(mergedSettings.Deny)) > 1
    /\ checkResult.Decision = "deny"

\* C8: a tool name outside the mcp__acp__ namespace gets ask with no rule,
\* whatever the settings hold.
C8_NonNamespacedAsk ==
    (Checked /\ ~Namespaced) => checkResult = Result("ask", <<>>, "")

\* C8 witness: a deny rule names the non-namespaced tool and the check has
\* answered.
C8_Witness ==
    /\ Checked /\ ~Namespaced /\ mergedSettings # NoPermissions
    /\ \E i \in 1..Len(mergedSettings.Deny) : mergedSettings.Deny[i] = toolName

IsBashPrefixRule(rule) ==
    /\ Len(rule) >= 5
    /\ HasPrefix(rule, <<"Bash", "(">>)
    /\ HasSuffix(rule, <<":", "*", ")">>)

PrefixOf(rule) == SubSeq(rule, 3, Len(rule) - 3)

IsBashExactRule(rule) ==
    /\ Len(rule) >= 4
    /\ HasPrefix(rule, <<"Bash", "(">>)
    /\ rule[Len(rule)] = ")"
    /\ ~HasSuffix(rule, <<":", "*", ")">>)

\* C2: a rule Bash(P:*) matches a command of mcp__acp__Bash exactly when the
\* command starts with P and what follows P holds no shell operator, for
\* every prefix P, the empty one included; a rule Bash(arg) matches only the
\* command equal to arg.
C2_ShellPrefixMatching ==
    (matched # "none" /\ toolName = AcpTool("Bash")) =>
        /\ IsBashPrefixRule(ruleStr) =>
              ((matched = "yes") <=>
                  /\ HasPrefix(toolInput.command, PrefixOf(ruleStr))
                  /\ ~containsShellOperator(
                        SubSeq(toolInput.command, Len(PrefixOf(ruleStr)) + 1,
                               Len(toolInput.command))))
        /\ IsBashExactRule(ruleStr) =>
              ((matched = "yes") => toolInput.command = SubSeq(ruleStr, 3, Len(ruleStr) - 1))

(***************************************************************************)
(* Session state machine: the operations of ClaudeAcpAgent, the steps of   *)
(* a Prompt call and of a Cancel call, and the child process.              *)
(***************************************************************************)
InFlight(p) == prompts[p].pc \notin {"idle", "done"}

\* NewSession: the mode the session starts in, given settings.Permissions.DefaultMode.
InitialMode(defaultMode, allow) ==
    LET permissionMode == IF defaultMode # "" THEN defaultMode ELSE "default"
    IN  IF permissionMode = "bypassPermissions" /\ ~allow THEN "default"
        ELSE permissionMode

\* generateID: an identifier no session has yet.
generateID == IF "s1" \notin sessions THEN "s1" ELSE "s2"

NewSession(s, defaultMode) ==
    /\ s \notin sessions
    /\ s = generateID
    /\ sessions' = sessions \cup {s}
    /\ sess' = [sess EXCEPT ![s] = Session(FALSE, FALSE, InitialMode(defaultMode, allowBypass))]
    /\ proc' = [proc EXCEPT ![s] = NewProcess]
    /\ advertised' = [advertised EXCEPT ![s] = filterModes(allowBypass)]
    /\ UNCHANGED <<allowBypass, toolUseCache, conn, lastSetMode, sent, stdout, emitted,
                   taskVars, ruleVars, invVars, permVars, utilVars>>

\* The sessions a completed Cancel has closed.
CancelledSessions ==
    {s \in sessions :
        /\ ~proc[s].stdinOpen
        /\ \E c \in CancelIds : cancels[c].pc = "done" /\ cancels[c].session = s}

\* Mutant of SetSessionMode: the mode is not checked against filterModes.
SetSessionMode_NoCheck(s, modeID) ==
    LET ok == s \in sessions
    IN  /\ sess' = IF ok THEN [sess EXCEPT ![s].permissionMode = modeID] ELSE sess
        /\ lastSetMode' = [session |-> s, mode |-> modeID, ok |-> ok,
                           cancelledOthers |-> CancelledSessions \ {s}]
        /\ UNCHANGED <<allowBypass, sessions, toolUseCache, conn, advertised, procVars,
                       taskVars, ruleVars, invVars, permVars, utilVars>>

SetSessionMode(s, modeID) ==
    LET validMode == modeID \in ModeIds(filterModes(allowBypass))
        ok        == s \in sessions /\ validMode
    IN  /\ sess' = IF ok THEN [sess EXCEPT ![s].permissionMode = modeID] ELSE sess
        /\ lastSetMode' = [session |-> s, mode |-> modeID, ok |-> ok,
                           cancelledOthers |-> CancelledSessions \ {s}]
        /\ UNCHANGED <<allowBypass, sessions, toolUseCache, conn, advertised, procVars,
                       taskVars, ruleVars, invVars, permVars, utilVars>>

\* Session.Cancel and Session.ResetCancelled
CancelSession_All(ss, s) == [x \in SessionIds |-> [ss[x] EXCEPT !.cancelled = TRUE]]

CancelSession(ss, s) == [ss EXCEPT ![s].cancelled = TRUE]

ResetCancelled(ss, s) ==
    [ss EXCEPT ![s].cancelled = FALSE, ![s].streamEventsReceived = FALSE]

Finish(p, outcome) == [prompts EXCEPT ![p].pc = "done", ![p].outcome = outcome]

\* Prompt, lines 195-202: the session lookup.
PromptCall(p, s, max) ==
    /\ prompts[p].pc \in {"idle", "done"}
    /\ calls < max
    /\ calls' = calls + 1
    /\ prompts' = [prompts EXCEPT ![p] =
            IF s \in sessions
            THEN PromptTask("reset", s, NoResp, NoOutcome, FALSE, FALSE, <<>>)
            ELSE PromptTask("done", s, NoResp, Failure("session not found", <<>>),
                            FALSE, FALSE, <<>>)]
    /\ UNCHANGED <<agentVars, procVars, cancels, ruleVars, invVars, permVars, utilVars>>

\* Prompt, line 204.
PromptReset(p) ==
    /\ prompts[p].pc = "reset"
    /\ sess' = ResetCancelled(sess, prompts[p].session)
    /\ prompts' = [prompts EXCEPT ![p].pc = "send"]
    /\ UNCHANGED <<allowBypass, sessions, toolUseCache, conn, advertised, lastSetMode,
                   procVars, cancels, calls, ruleVars, invVars, permVars, utilVars>>

\* Prompt, lines 206-209, with SendMessage: the write fails on a closed stdin
\* and on a pipe whose reader has exited.
PromptSend(p) ==
    LET s == prompts[p].session
    IN  /\ prompts[p].pc = "send"
        /\ proc[s].mu = "free"
        /\ IF proc[s].stdinOpen /\ ~proc[s].exited
           THEN /\ sent' = [sent EXCEPT ![s] = sent[s] + 1]
                /\ prompts' = [prompts EXCEPT ![p].pc = "loop"]
           ELSE /\ sent' = sent
                /\ prompts' = Finish(p, Failure("failed to send message", <<>>))
        /\ UNCHANGED <<agentVars, proc, stdout, emitted, cancels, calls,
                       ruleVars, invVars, permVars, utilVars>>

\* Prompt, lines 212-220: the top of the loop.
PromptLoop(p) ==
    LET s == prompts[p].session
    IN  /\ prompts[p].pc = "loop"
        /\ prompts' = IF prompts[p].ctxDone \/ sess[s].cancelled
                      THEN Finish(p, Stop("cancelled"))
                      ELSE [prompts EXCEPT ![p].pc = "read"]
        /\ UNCHANGED <<agentVars, procVars, cancels, calls, ruleVars, invVars, permVars, utilVars>>

\* The request context of a Prompt call is cancelled.
CtxCancel(p) ==
    /\ InFlight(p)
    /\ ~prompts[p].ctxDone
    /\ prompts' = [prompts EXCEPT ![p].ctxDone = TRUE]
    /\ UNCHANGED <<agentVars, procVars, cancels, calls, ruleVars, invVars, permVars, utilVars>>

\* ReadMessage: the next line; end of stream once the child has exited and
\* nothing is left; an error of the scanner once Wait has closed the pipe
\* under it.  It blocks while the child runs and has written nothing.
CanRead(s) == stdout[s] # <<>> \/ proc[s].exited \/ proc[s].stdoutClosed

\* A ReadMessage that reports the end of the stream for a line it cannot
\* decode.
ReadMessage_EOFOnBadLine(s) ==
    IF stdout[s] # <<>>
    THEN (IF Head(stdout[s]).type = "#unparsable" THEN EndOfStream ELSE Head(stdout[s]))
    ELSE IF proc[s].scannerEOF THEN EndOfStream
    ELSE IF proc[s].stdoutClosed THEN ReadError
    ELSE EndOfStream

ReadMessage(s) ==
    IF stdout[s] # <<>> THEN Head(stdout[s])
    ELSE IF proc[s].scannerEOF THEN EndOfStream
    ELSE IF proc[s].stdoutClosed THEN ReadError
    ELSE EndOfStream

\* Prompt, line 222.
PromptRead(p) ==
    LET s    == prompts[p].session
        resp == ReadMessage(s)
    IN  /\ prompts[p].pc = "read"
        /\ CanRead(s)
        /\ stdout' = [stdout EXCEPT ![s] = IF stdout[s] # <<>> THEN Tail(stdout[s]) ELSE <<>>]
        /\ proc' = [proc EXCEPT ![s].scannerEOF = proc[s].scannerEOF \/ resp = EndOfStream]
        /\ prompts' = [prompts EXCEPT ![p].pc = "dispatch", ![p].resp = resp,
                           ![p].log = IF resp.seq > 0 THEN Append(prompts[p].log, resp)
                                      ELSE prompts[p].log]
        /\ UNCHANGED <<agentVars, sent, emitted, cancels, calls, ruleVars, invVars, permVars, utilVars>>

\* The notifications of one event, marked with the place of the event.
Stamp(out, seq) == [i \in 1..Len(out) |-> [out[i] EXCEPT !.ev = seq]]

\* A loop that gives up with an error on a line of a type it does not know.
PromptDispatch_Strict(p) ==
    LET s         == prompts[p].session
        resp      == prompts[p].resp
        cancelled == sess[s].cancelled
        tr        == IF resp.type = "stream_event"
                     THEN streamEventToAcpNotifications(resp, s, toolUseCache)
                     ELSE handleMessage(resp, s, sess[s].streamEventsReceived, toolUseCache)
        forwards  == resp.type \in {"stream_event", "assistant", "user"} /\ ~cancelled
    IN  /\ prompts[p].pc = "dispatch"
        /\ prompts' =
             CASE resp.type = "#eof" ->
                    Finish(p, IF cancelled THEN Stop("cancelled") ELSE Stop("end_turn"))
               [] resp.type \in {"#error", "#unparsable"} ->
                    Finish(p, Failure("read error", <<>>))
               [] resp.type = "result" ->
                    Finish(p, IF cancelled THEN Stop("cancelled") ELSE handleResult(resp))
               [] resp.type \in {"system", "stream_event", "assistant", "user",
                                 "tool_progress", "tool_use_summary", "auth_status"} ->
                    [prompts EXCEPT ![p].pc = "loop"]
               [] OTHER -> Finish(p, Failure("read error", <<>>))
        /\ conn' = IF forwards THEN conn \o Stamp(tr.out, resp.seq) ELSE conn
        /\ toolUseCache' = IF forwards THEN tr.cache ELSE toolUseCache
        /\ sess' = IF forwards /\ resp.type = "stream_event" /\ tr.out # <<>>
                   THEN [sess EXCEPT ![s].streamEventsReceived = TRUE]
                   ELSE sess
        /\ UNCHANGED <<allowBypass, sessions, advertised, lastSetMode, procVars,
                       cancels, calls, ruleVars, invVars, permVars, utilVars>>

\* Prompt, lines 223-280: what the loop does with what ReadMessage gave.
PromptDispatch(p) ==
    LET s         == prompts[p].session
        resp      == prompts[p].resp
        cancelled == sess[s].cancelled
        tr        == IF resp.type = "stream_event"
                     THEN streamEventToAcpNotifications(resp, s, toolUseCache)
                     ELSE handleMessage(resp, s, sess[s].streamEventsReceived, toolUseCache)
        forwards  == resp.type \in {"stream_event", "assistant", "user"} /\ ~cancelled
    IN  /\ prompts[p].pc = "dispatch"
        /\ prompts' =
             CASE resp.type = "#eof" ->
                    Finish(p, IF cancelled THEN Stop("cancelled") ELSE Stop("end_turn"))
               [] resp.type \in {"#error", "#unparsable"} ->
                    Finish(p, Failure("read error", <<>>))
               [] resp.type = "result" ->
                    Finish(p, IF cancelled THEN Stop("cancelled") ELSE handleResult(resp))
               [] OTHER -> [prompts EXCEPT ![p].pc = "loop"]
        /\ conn' = IF forwards THEN conn \o Stamp(tr.out, resp.seq) ELSE conn
        /\ toolUseCache' = IF forwards THEN tr.cache ELSE toolUseCache
        /\ sess' = IF forwards /\ resp.type = "stream_event" /\ tr.out # <<>>
                   THEN [sess EXCEPT ![s].streamEventsReceived = TRUE]
                   ELSE sess
        /\ UNCHANGED <<allowBypass, sessions, advertised, lastSetMode, procVars,
                       cancels, calls, ruleVars, invVars, permVars, utilVars>>

\* Cancel, lines 398-404: the session lookup.
CancelCall(c, s) ==
    /\ cancels[c].pc = "idle"
    /\ cancels' = [cancels EXCEPT ![c] =
            CancelTask(IF s \in sessions THEN "flag" ELSE "done", s)]
    /\ UNCHANGED <<agentVars, procVars, prompts, calls, ruleVars, invVars, permVars, utilVars>>

\* Cancel, line 405.
CancelFlag(c) ==
    LET s == cancels[c].session
    IN  /\ cancels[c].pc = "flag"
        /\ sess' = CancelSession(sess, s)
        /\ prompts' = [p \in PromptIds |->
                IF InFlight(p) /\ prompts[p].session = s
                THEN [prompts[p] EXCEPT !.cancelSeen = TRUE] ELSE prompts[p]]
        /\ cancels' = [cancels EXCEPT ![c].pc = "close"]
        /\ UNCHANGED <<allowBypass, sessions, toolUseCache, conn, advertised, lastSetMode,
                       procVars, calls, ruleVars, invVars, permVars, utilVars>>

\* A Close that goes on to cmd.Wait and close(p.done) whatever stdin.Close
\* returned.
CancelClose_Reclose(c) ==
    LET s == cancels[c].session
    IN  /\ cancels[c].pc = "close"
        /\ proc[s].mu = "free"
        /\ proc' = [proc EXCEPT ![s].stdinOpen = FALSE, ![s].mu = c]
        /\ cancels' = [cancels EXCEPT ![c].pc = "wait"]
        /\ UNCHANGED <<agentVars, sent, stdout, emitted, prompts, calls,
                       ruleVars, invVars, permVars, utilVars>>

\* Cancel, line 406, Close up to cmd.Wait: it takes p.mu and closes stdin; a
\* stdin that is closed already makes Close return at once.
CancelClose(c) ==
    LET s == cancels[c].session
    IN  /\ cancels[c].pc = "close"
        /\ proc[s].mu = "free"
        /\ IF proc[s].stdinOpen
           THEN /\ proc' = [proc EXCEPT ![s].stdinOpen = FALSE, ![s].mu = c]
                /\ cancels' = [cancels EXCEPT ![c].pc = "wait"]
           ELSE /\ proc' = proc
                /\ cancels' = [cancels EXCEPT ![c].pc = "done"]
        /\ UNCHANGED <<agentVars, sent, stdout, emitted, prompts, calls,
                       ruleVars, invVars, permVars, utilVars>>

\* Close from cmd.Wait on: Wait returns once the child has exited and closes
\* the stdout pipe; lines the scanner had not taken into its buffer are lost
\* with the pipe.  Then done is closed and p.mu released.
CancelWait(c, buffered) ==
    LET s == cancels[c].session
    IN  /\ cancels[c].pc = "wait"
        /\ proc[s].exited
        /\ proc' = [proc EXCEPT ![s].stdoutClosed = TRUE, ![s].done = proc[s].done + 1,
                                ![s].mu = "free"]
        /\ stdout' = [stdout EXCEPT ![s] = IF buffered THEN stdout[s] ELSE <<>>]
        /\ cancels' = [cancels EXCEPT ![c].pc = "done"]
        /\ UNCHANGED <<agentVars, sent, emitted, prompts, calls, ruleVars, invVars, permVars, utilVars>>

\* The child writes one line to its stdout.
ChildEmit(s, e, max) ==
    /\ s \in sessions
    /\ ~proc[s].exited
    /\ emitted[s] < max
    /\ emitted' = [emitted EXCEPT ![s] = emitted[s] + 1]
    /\ stdout' = [stdout EXCEPT ![s] = Append(stdout[s], [e EXCEPT !.seq = emitted[s] + 1])]
    /\ UNCHANGED <<agentVars, proc, sent, taskVars, ruleVars, invVars, permVars, utilVars>>

\* The child exits: on the end of its input, or by itself.
ChildExit(s) ==
    /\ s \in sessions
    /\ ~proc[s].exited
    /\ proc' = [proc EXCEPT ![s].exited = TRUE]
    /\ UNCHANGED <<agentVars, sent, stdout, emitted, taskVars, ruleVars, invVars, permVars, utilVars>>

(***************************************************************************)
(* Spec: an agent with two sessions, one Prompt call at a time, one Cancel *)
(* call and one mode request; the settings name no default mode.           *)
(***************************************************************************)
DefaultModes == {"", "acceptEdits", "bypassPermissions", "yolo"}

RequestedModes == {"plan", "bypassPermissions", "yolo"}

NoDefaultMode == {""}

Events ==
    { Simple("system"),
      ResultEvent("success", FALSE, <<>>, <<>>),
      StreamEvent("content_block_delta", TextBlock("text_delta", <<"x">>)) }

InvIdle == toolName = <<"Bash">> /\ toolInput = Input(<<>>, <<>>)

Init ==
    /\ allowBypass = TRUE
    /\ MachineStart
    /\ RuleIdle
    /\ PermIdle
    /\ InvIdle
    /\ UtilIdle

Next ==
    \/ \E s \in SessionIds, m \in NoDefaultMode : NewSession(s, m)
    \/ \E s \in SessionIds, m \in RequestedModes :
            lastSetMode = NoSetMode /\ SetSessionMode(s, m)
    \/ \E s \in SessionIds : PromptCall("p1", s, MaxPrompts)
    \/ PromptReset("p1")
    \/ PromptSend("p1")
    \/ PromptLoop("p1")
    \/ PromptRead("p1")
    \/ PromptDispatch("p1")
    \/ \E c \in OneCancel, s \in SessionIds : CancelCall(c, s)
    \/ \E c \in OneCancel : CancelFlag(c)
    \/ \E c \in OneCancel : CancelClose(c)
    \/ \E c \in OneCancel, buffered \in BOOLEAN : CancelWait(c, buffered)
    \/ \E s \in SessionIds, e \in Events : ChildEmit(s, e, MaxEvents)
    \/ \E s \in SessionIds : ChildExit(s)

Spec == Init /\ [][Next]_vars

(***************************************************************************)
(* SpecRace: one session, Prompt calls that may run at once, one Cancel    *)
(* call, and request contexts that may be cancelled.                       *)
(***************************************************************************)
NextRace ==
    \/ NewSession("s1", "")
    \/ \E p \in PromptIds : PromptCall(p, "s1", MaxPrompts)
    \/ \E p \in PromptIds : PromptReset(p)
    \/ \E p \in PromptIds : PromptSend(p)
    \/ \E p \in PromptIds : PromptLoop(p)
    \/ \E p \in PromptIds : PromptRead(p)
    \/ \E p \in PromptIds : PromptDispatch(p)
    \/ \E p \in PromptIds : CtxCancel(p)
    \/ \E c \in OneCancel : CancelCall(c, "s1")
    \/ \E c \in OneCancel : CancelFlag(c)
    \/ \E c \in OneCancel : CancelClose(c)
    \/ \E c \in OneCancel, buffered \in BOOLEAN : CancelWait(c, buffered)
    \/ \E e \in Events : ChildEmit("s1", e, MaxRaceEvents)
    \/ ChildExit("s1")

SpecRace == Init /\ [][NextRace]_vars

(***************************************************************************)
(* SpecModes: NewSession under any default mode of the settings and any    *)
(* sequence of mode requests, with bypass allowed or withheld.             *)
(***************************************************************************)
InitModes ==
    /\ allowBypass \in BOOLEAN
    /\ MachineStart
    /\ RuleIdle
    /\ PermIdle
    /\ InvIdle
    /\ UtilIdle

NextModes ==
    \/ \E s \in SessionIds, m \in DefaultModes : NewSession(s, m)
    \/ \E s \in SessionIds, m \in RequestedModes : SetSessionMode(s, m)

SpecModes == InitModes /\ [][NextModes]_vars

(***************************************************************************)
(* SpecTurn: one session whose child writes any lines, Prompt calls one    *)
(* after the other, and a request context that may be cancelled.           *)
(***************************************************************************)
LimitSubtypes ==
    {"error_max_turns", "error_max_budget_usd", "error_max_structured_output_retries"}

ResultEvents ==
    { ResultEvent("success", FALSE, <<>>, <<>>),
      ResultEvent("success", FALSE, LoginText, <<>>),
      ResultEvent("success", TRUE, LoginText, <<>>),
      ResultEvent("success", TRUE, <<"boom">>, <<>>),
      ResultEvent("error_during_execution", TRUE, <<>>, << <<"e1">> >>),
      ResultEvent("error_during_execution", FALSE, <<>>, <<>>),
      ResultEvent("unknown", TRUE, <<>>, <<>>) }
    \cup { ResultEvent(t, FALSE, <<>>, <<>>) : t \in LimitSubtypes }
    \cup { ResultEvent(t, TRUE, <<>>, << <<"e1">>, <<"e2">> >>) : t \in LimitSubtypes }
    \cup { ResultEvent("error_max_turns", TRUE, <<>>, <<>>) }

MessageEvents ==
    { StreamEvent("content_block_start", ToolUse("t1", "Read", 0)),
      StreamEvent("content_block_start", TextBlock("text", <<"x">>)),
      StreamEvent("message_start", IgnoredBlock("none")),
      MessageEvent("assistant",
          BlockContent(<< TextBlock("text", <<"x">>), ToolUse("t1", "Read", 0) >>)),
      MessageEvent("assistant", BlockContent(<< ToolUse("t2", "TodoWrite", 1) >>)),
      MessageEvent("user", BlockContent(<< ToolResult("t1", FALSE) >>)),
      MessageEvent("user", BlockContent(<< ToolResult("t2", TRUE) >>)),
      MessageEvent("user", StringContent(<<"hi">>)),
      Simple("system"),
      Simple("#unparsable") }

TurnEvents == ResultEvents \cup MessageEvents

NextTurn ==
    \/ NewSession("s1", "")
    \/ PromptCall("p1", "s1", MaxTurns)
    \/ PromptReset("p1")
    \/ PromptSend("p1")
    \/ PromptLoop("p1")
    \/ PromptRead("p1")
    \/ PromptDispatch("p1")
    \/ CtxCancel("p1")
    \/ \E e \in TurnEvents : ChildEmit("s1", e, MaxTurnEvents)
    \/ ChildExit("s1")

SpecTurn == Init /\ [][NextTurn]_vars

(***************************************************************************)
(* SpecMsg: the machine of SpecTurn with a child that writes stream events *)
(* and consolidated assistant and user messages of every shape of content. *)
(***************************************************************************)
MsgEvents ==
    { StreamEvent("content_block_start", TextBlock("text", <<"x">>)),
      StreamEvent("message_start", IgnoredBlock("none")),
      MessageEvent("assistant",
          BlockContent(<< TextBlock("text", <<"x">>), ToolUse("t1", "Read", 0) >>)),
      MessageEvent("assistant",
          BlockContent(<< ThinkingBlock("thinking"), TextBlock("text", <<"x">>) >>)),
      MessageEvent("assistant", StringContent(<<"hi">>)),
      MessageEvent("user", StringContent(<<"hi">>)),
      MessageEvent("user", BlockContent(<< TextBlock("text", <<"hi">>) >>)),
      MessageEvent("user",
          BlockContent(<< TextBlock("text", <<"hi">>), TextBlock("text", <<"x">>) >>)),
      MessageEvent("user", BlockContent(<< ToolResult("t1", FALSE) >>)),
      ResultEvent("success", FALSE, <<>>, <<>>) }

NextMsg ==
    \/ NewSession("s1", "")
    \/ PromptCall("p1", "s1", MaxTurns)
    \/ PromptReset("p1")
    \/ PromptSend("p1")
    \/ PromptLoop("p1")
    \/ PromptRead("p1")
    \/ PromptDispatch("p1")
    \/ CtxCancel("p1")
    \/ \E e \in MsgEvents : ChildEmit("s1", e, MaxMsgEvents)
    \/ ChildExit("s1")

SpecMsg == Init /\ [][NextMsg]_vars

(***************************************************************************)
(* SpecShared: two sessions of one agent, each with its own Prompt call;   *)
(* the calls run at once and the children announce and answer tool uses.   *)
(***************************************************************************)
SharedEvents ==
    { StreamEvent("content_block_start", ToolUse("t1", "Read", 0)),
      MessageEvent("user", BlockContent(<< ToolResult("t1", FALSE) >>)),
      ResultEvent("success", FALSE, <<>>, <<>>) }

NextShared ==
    \/ \E s \in SessionIds : NewSession(s, "")
    \/ PromptCall("p1", "s1", MaxPrompts)
    \/ PromptCall("p2", "s2", MaxPrompts)
    \/ \E p \in PromptIds : PromptReset(p)
    \/ \E p \in PromptIds : PromptSend(p)
    \/ \E p \in PromptIds : PromptLoop(p)
    \/ \E p \in PromptIds : PromptRead(p)
    \/ \E p \in PromptIds : PromptDispatch(p)
    \/ \E s \in SessionIds, e \in SharedEvents : ChildEmit(s, e, MaxSharedEvents)
    \/ \E s \in SessionIds : ChildExit(s)

SpecShared == Init /\ [][NextShared]_vars

(***************************************************************************)
(* SpecClose: one session, two Cancel calls that may run at once on its    *)
(* process, and one Prompt call.                                           *)
(***************************************************************************)
NextClose ==
    \/ NewSession("s1", "")
    \/ PromptCall("p1", "s1", MaxPrompts)
    \/ PromptReset("p1")
    \/ PromptSend("p1")
    \/ PromptLoop("p1")
    \/ PromptRead("p1")
    \/ PromptDispatch("p1")
    \/ \E c \in CancelIds : CancelCall(c, "s1")
    \/ \E c \in CancelIds : CancelFlag(c)
    \/ \E c \in CancelIds : CancelClose(c)
    \/ \E c \in CancelIds, buffered \in BOOLEAN : CancelWait(c, buffered)
    \/ \E e \in Events : ChildEmit("s1", e, MaxCloseEvents)
    \/ ChildExit("s1")

SpecClose == Init /\ [][NextClose]_vars

(***************************************************************************)
(* SpecLoop: one session whose child writes lines of every type the loop   *)
(* of Prompt tells apart, one Prompt call, one Cancel call and a request   *)
(* context that may be cancelled.                                          *)
(***************************************************************************)
HousekeepingTypes == {"tool_progress", "tool_use_summary", "auth_status"}

LoopEvents ==
    { Simple("system"),
      StreamEvent("content_block_start", TextBlock("text", <<"x">>)),
      MessageEvent("assistant", BlockContent(<< TextBlock("text", <<"x">>) >>)),
      MessageEvent("user", StringContent(<<"hi">>)),
      Simple("mystery"),
      ResultEvent("success", FALSE, <<>>, <<>>),
      Simple("#unparsable") }
    \cup { Simple(t) : t \in HousekeepingTypes }

NextLoop ==
    \/ NewSession("s1", "")
    \/ PromptCall("p1", "s1", MaxPrompts)
    \/ PromptReset("p1")
    \/ PromptSend("p1")
    \/ PromptLoop("p1")
    \/ PromptRead("p1")
    \/ PromptDispatch("p1")
    \/ CtxCancel("p1")
    \/ CancelCall("c1", "s1")
    \/ CancelFlag("c1")
    \/ CancelClose("c1")
    \/ \E buffered \in BOOLEAN : CancelWait("c1", buffered)
    \/ \E e \in LoopEvents : ChildEmit("s1", e, MaxLoopEvents)
    \/ ChildExit("s1")

SpecLoop == Init /\ [][NextLoop]_vars

(***************************************************************************)
(* SpecCache: one session, turns one after the other, and a child that     *)
(* announces tool uses, one identifier under two names, and sends a tool   *)
(* result.                                                                 *)
(***************************************************************************)
CacheEvents ==
    { StreamEvent("content_block_start", ToolUse("t1", "Read", 0)),
      MessageEvent("assistant", BlockContent(<< ToolUse("t1", "Bash", 0) >>)),
      MessageEvent("assistant", BlockContent(<< ToolUse("t2", "Read", 0) >>)),
      MessageEvent("user", BlockContent(<< ToolResult("t1", FALSE) >>)),
      ResultEvent("success", FALSE, <<>>, <<>>) }

NextCache ==
    \/ NewSession("s1", "")
    \/ PromptCall("p1", "s1", MaxTurns)
    \/ PromptReset("p1")
    \/ PromptSend("p1")
    \/ PromptLoop("p1")
    \/ PromptRead("p1")
    \/ PromptDispatch("p1")
    \/ \E e \in CacheEvents : ChildEmit("s1", e, MaxCacheEvents)
    \/ ChildExit("s1")

SpecCache == Init /\ [][NextCache]_vars

(***************************************************************************)
(* Claims on the session state machine.                                    *)
(***************************************************************************)
Indices(kind, T) == {i \in 1..Len(conn) : conn[i].kind = kind /\ conn[i].id = T}

HasBlock(e, type, T) ==
    \E i \in 1..Len(e.content.blocks) :
        e.content.blocks[i].type = type /\ e.content.blocks[i].id = T

StreamAnnounces(e, T) ==
    e.type = "stream_event" /\ e.event = "content_block_start" /\ HasBlock(e, "tool_use", T)

MessageAnnounces(e, T) == e.type = "assistant" /\ HasBlock(e, "tool_use", T)

CarriesResult(e, T) == e.type = "user" /\ HasBlock(e, "tool_result", T)

\* The first turn has read: the tool use T, not a TodoWrite, announced in a
\* stream event, in the consolidated message or in both, and then one result
\* of T; and it has handled the last of them.
ToolCallRead(T) ==
    LET log == prompts["p1"].log
        n   == Len(log)
        S   == {i \in 1..n : StreamAnnounces(log[i], T)}
        M   == {i \in 1..n : MessageAnnounces(log[i], T)}
        R   == {i \in 1..n : CarriesResult(log[i], T)}
    IN  /\ calls = 1
        /\ prompts["p1"].pc \in {"loop", "read"}
        /\ ~prompts["p1"].ctxDone
        /\ Cardinality(S) <= 1 /\ Cardinality(M) <= 1 /\ S \cup M # {}
        /\ R = {n}
        /\ toolUseCache[T] \notin {"", "TodoWrite"}

\* C3: a tool use T announced in a stream event, in the consolidated message
\* or in both, and followed by a result of T, gives the client exactly one
\* tool-call start with id T and after it exactly one tool-call update with
\* id T.
C3_OneStartOneUpdate ==
    \A T \in ToolIds :
        ToolCallRead(T) =>
            /\ Cardinality(Indices("tool_call", T)) = 1
            /\ Cardinality(Indices("tool_call_update", T)) = 1
            /\ \A i \in Indices("tool_call", T), j \in Indices("tool_call_update", T) : i < j

Reading(s) ==
    {p \in PromptIds : prompts[p].session = s /\ prompts[p].pc \in {"loop", "read", "dispatch"}}

\* C4: at most one Prompt on a session is between sending its user message
\* and returning.
C4_OneTurnInFlight == \A s \in SessionIds : Cardinality(Reading(s)) <= 1

\* C5: a Prompt of session S during which a Cancel of S set the cancelled
\* flag returns the stop reason cancelled, not end-turn and not an error.
C5_CancelEndsCancelled ==
    \A p \in PromptIds :
        (prompts[p].pc = "done" /\ prompts[p].cancelSeen)
            => prompts[p].outcome = Stop("cancelled")

Before(a, b) == a.ev < b.ev \/ (a.ev = b.ev /\ a.blk < b.blk)

InOrder == \A i, j \in 1..Len(conn) : i < j => Before(conn[i], conn[j])

\* Whatever a step hands to the connection comes from the event the Prompt
\* is handling in that step.
SentWithItsEvent ==
    conn' # conn =>
        /\ prompts["p1"].pc = "dispatch"
        /\ Len(conn') > Len(conn)
        /\ SubSeq(conn', 1, Len(conn)) = conn
        /\ \A i \in (Len(conn) + 1)..Len(conn') : conn'[i].ev = prompts["p1"].resp.seq

\* C6: the notifications reach the connection in the order in which their
\* events were read and, within an event, in the order of its blocks; none
\* is sent before one of an earlier event and none is held back.
C6_NotificationOrder == []InOrder /\ [][SentWithItsEvent]_vars

C6_Witness ==
    /\ Len(conn) >= 3
    /\ conn[1].ev < conn[2].ev
    /\ conn[2].ev = conn[3].ev

\* The outcome C7 names for a result event; joined is what an internal error
\* of a limit subtype carries.
ExpectedOutcome(r, joined) ==
    IF r.subtype = "success"
    THEN (IF Contains(r.result, LoginText) THEN Failure("auth_required", <<>>)
          ELSE IF r.is_error THEN Failure("internal", r.result)
          ELSE Stop("end_turn"))
    ELSE IF r.is_error THEN Failure("internal", joined) ELSE Stop("max_turn_requests")

EndedByResult ==
    /\ prompts["p1"].pc = "done"
    /\ prompts["p1"].resp.type = "result"
    /\ prompts["p1"].resp.subtype \in {"success"} \cup LimitSubtypes

ResultIsLast ==
    \A i \in 1..Len(prompts["p1"].log) :
        prompts["p1"].log[i].type = "result" =>
            i = Len(prompts["p1"].log) /\ prompts["p1"].pc \in {"dispatch", "done"}

\* C7 as stated: the first result event ends the turn; success gives end-turn,
\* auth-required on a login request, an internal error with the result text
\* on a set error flag; the limit subtypes give max-turn-requests, or an
\* internal error with the joined error messages on a set error flag.
C7_ResultMapping_Stated ==
    /\ ResultIsLast
    /\ EndedByResult =>
         prompts["p1"].outcome
            = ExpectedOutcome(prompts["p1"].resp, JoinErrors(prompts["p1"].resp.errors))

\* C7: as above, where the internal error of a limit subtype carries the
\* joined error messages, or the name of the subtype when there are none.
C7_ResultMapping ==
    /\ ResultIsLast
    /\ EndedByResult =>
         prompts["p1"].outcome
            = ExpectedOutcome(prompts["p1"].resp,
                  IF prompts["p1"].resp.errors = <<>>
                  THEN << prompts["p1"].resp.subtype >>
                  ELSE JoinErrors(prompts["p1"].resp.errors))

C7_Witness ==
    /\ EndedByResult
    /\ prompts["p1"].resp.subtype = "error_max_turns"
    /\ prompts["p1"].resp.is_error
    /\ prompts["p1"].resp.errors = <<>>

C9_Allowed ==
    {"default", "acceptEdits", "plan", "dontAsk"}
        \cup (IF allowBypass THEN {"bypassPermissions"} ELSE {})

\* C9: the permission mode of every session is an allowed mode, and the
\* modes NewSession advertised are the allowed modes.
C9_ModeInvariant ==
    \A s \in sessions :
        /\ sess[s].permissionMode \in C9_Allowed
        /\ ModeIds(advertised[s]) = C9_Allowed

\* The step belongs to an operation addressed to session s.
Addressed(s) ==
    \/ \E p \in PromptIds : prompts'[p] # prompts[p] /\ prompts'[p].session = s
    \/ \E c \in CancelIds : cancels'[c] # cancels[c] /\ cancels'[c].session = s
    \/ lastSetMode' # lastSetMode /\ lastSetMode'.session = s

OthersUntouched ==
    \A s1, s2 \in SessionIds :
        (s1 # s2 /\ Addressed(s1)) =>
            /\ sess'[s2] = sess[s2]
            /\ proc'[s2] = proc[s2]
            /\ stdout'[s2] = stdout[s2]

SetModeSucceeds ==
    (/\ lastSetMode' # lastSetMode
     /\ lastSetMode'.session \in sessions
     /\ lastSetMode'.mode \in C9_Allowed)
        => /\ lastSetMode'.ok
           /\ sess'[lastSetMode'.session].permissionMode = lastSetMode'.mode

\* C10: a step of Cancel, SetSessionMode or Prompt addressed to one session
\* leaves the flags, the permission mode and the child process of every other
\* session as they are; a valid mode request on a session succeeds, also
\* after another session was cancelled.
C10_SessionIsolation == [][OthersUntouched /\ SetModeSucceeds]_vars

C10_Witness ==
    /\ lastSetMode.ok
    /\ lastSetMode.cancelledOthers # {}
    /\ prompts["p1"].pc = "done"
    /\ prompts["p1"].session # lastSetMode.session
    /\ prompts["p1"].session \in sessions

(***************************************************************************)
(* The diff engine: createUnifiedDiff and computeDiffHunks of              *)
(* src/unnamed/part_001, parseUnifiedDiff and parseHunkHeader of           *)
(* src/tools.go.  A text is a sequence of symbols, the newline being one   *)
(* of them; a line is the sequence of symbols between two newlines.        *)
(***************************************************************************)
NL == "\n"

\* strings.Split(text, NL): the lines of a text, one more than its newlines.
RECURSIVE Split(_)
Split(text) ==
    IF IndexOf(text, NL) = 0 THEN << text >>
    ELSE << SubSeq(text, 1, IndexOf(text, NL) - 1) >>
            \o Split(SubSeq(text, IndexOf(text, NL) + 1, Len(text)))

splitLines(content) == IF content = <<>> THEN <<>> ELSE Split(content)

\* Go evaluates the arguments of a call before the call; Eager(v, e) is e
\* with v evaluated first.
Eager(v, e) == IF v = v THEN e ELSE e

\* One row of the LCS table, built from column j down to column 1: below is
\* the row of the next old line, acc the part of this row right of column j.
RECURSIVE LcsRow(_, _, _, _, _)
LcsRow(oldLine, newLines, j, below, acc) ==
    IF Eager(acc, j = 0) THEN acc
    ELSE LET v == IF oldLine = newLines[j] THEN below[j + 1] + 1
                  ELSE IF below[j] > acc[1] THEN below[j]
                  ELSE acc[1]
         IN  LcsRow(oldLine, newLines, j - 1, below, << v >> \o acc)

\* The LCS table: rows i..m+1 given the rows i+1..m+1.
RECURSIVE LcsRows(_, _, _, _)
LcsRows(oldLines, newLines, i, rows) ==
    IF Eager(rows, i = 0) THEN rows
    ELSE LcsRows(oldLines, newLines, i - 1,
                 << LcsRow(oldLines[i], newLines, Len(newLines), rows[1], << 0 >>) >>
                    \o rows)

LcsTable(oldLines, newLines) ==
    LcsRows(oldLines, newLines, Len(oldLines),
            << [j \in 1..(Len(newLines) + 1) |-> 0] >>)

DiffOp(op, line, oldN, newN) == [op |-> op, line |-> line, oldN |-> oldN, newN |-> newN]

\* The edit script: i and j are the places in the old and the new lines,
\* counted from 1; oldN and newN are counted from 0 as in the code.
RECURSIVE DiffOps(_, _, _, _, _)
DiffOps(oldLines, newLines, lcs, i, j) ==
    LET m == Len(oldLines)
        n == Len(newLines)
    IN  IF i <= m /\ j <= n
        THEN IF oldLines[i] = newLines[j]
             THEN << DiffOp(" ", oldLines[i], i - 1, j - 1) >>
                     \o DiffOps(oldLines, newLines, lcs, i + 1, j + 1)
             ELSE IF lcs[i + 1][j] >= lcs[i][j + 1]
             THEN << DiffOp("-", oldLines[i], i - 1, j - 1) >>
                     \o DiffOps(oldLines, newLines, lcs, i + 1, j)
             ELSE << DiffOp("+", newLines[j], i - 1, j - 1) >>
                     \o DiffOps(oldLines, newLines, lcs, i, j + 1)
        ELSE IF i <= m
        THEN << DiffOp("-", oldLines[i], i - 1, j - 1) >>
                \o DiffOps(oldLines, newLines, lcs, i + 1, j)
        ELSE IF j <= n
        THEN << DiffOp("+", newLines[j], i - 1, j - 1) >>
                \o DiffOps(oldLines, newLines, lcs, i, j + 1)
        ELSE <<>>

contextLines == 3

DiffHunk(oldStart, oldCount, newStart, newCount, lines) ==
    [oldStart |-> oldStart, oldCount |-> oldCount, newStart |-> newStart,
     newCount |-> newCount, lines |-> lines]

NoHunk == [nil |-> TRUE]

IsContext(o) == o.op = " "

ContextLinesOf(ops) == [i \in 1..Len(ops) |-> << " " >> \o ops[i].line]

Max(a, b) == IF a > b THEN a ELSE b

Least(a, b) == IF a < b THEN a ELSE b

\* A change at place k opens a hunk when none is open: the context ops among
\* the three ops before it come first.
OpenHunk(ops, k) ==
    LET ctx == SelectSeq(SubSeq(ops, Max(k - contextLines, 1), k - 1), IsContext)
    IN  DiffHunk(IF ctx # <<>> THEN ctx[1].oldN ELSE ops[k].oldN, Len(ctx),
                 IF ctx # <<>> THEN ctx[1].newN ELSE ops[k].newN, Len(ctx),
                 ContextLinesOf(ctx))

\* The change at place k is added to the hunk.
AddChange(h, o) ==
    [h EXCEPT !.lines = Append(h.lines, << o.op >> \o o.line),
              !.oldCount = IF o.op = "-" THEN h.oldCount + 1 ELSE h.oldCount,
              !.newCount = IF o.op = "-" THEN h.newCount ELSE h.newCount + 1]

AddContext(h, ctx) ==
    [h EXCEPT !.lines = h.lines \o ContextLinesOf(ctx),
              !.oldCount = h.oldCount + Len(ctx),
              !.newCount = h.newCount + Len(ctx)]

\* Is there a change among the ops after place k, up to twice the context away?
NextChange(ops, k) ==
    \E ni \in (k + 1)..Least(k + 2 * contextLines, Len(ops)) : ops[ni].op # " "

\* The hunk loop of computeDiffHunks from place k on, cur being the open hunk.
RECURSIVE HunkLoop(_, _, _, _)
HunkLoop(ops, k, cur, hunks) ==
    IF Eager(<< cur, hunks >>, k > Len(ops))
    THEN (IF cur # NoHunk THEN Append(hunks, cur) ELSE hunks)
    ELSE IF ops[k].op # " "
    THEN HunkLoop(ops, k + 1,
                  AddChange(IF cur = NoHunk THEN OpenHunk(ops, k) ELSE cur, ops[k]),
                  hunks)
    ELSE IF cur = NoHunk THEN HunkLoop(ops, k + 1, cur, hunks)
    ELSE IF NextChange(ops, k)
    THEN HunkLoop(ops, k + 1, AddContext(cur, << ops[k] >>), hunks)
    ELSE HunkLoop(ops, k + 1, NoHunk,
                  Append(hunks,
                         AddContext(cur,
                             SelectSeq(SubSeq(ops, k, Least(k + contextLines, Len(ops))),
                                       IsContext))))

\* Mutant of computeDiffHunks: every old line removed and every new line
\* added, no common line looked for.
computeDiffHunks_Replace(oldLines, newLines) ==
    LET ops == [k \in 1..(Len(oldLines) + Len(newLines)) |->
                   IF k <= Len(oldLines)
                   THEN DiffOp("-", oldLines[k], k - 1, 0)
                   ELSE DiffOp("+", newLines[k - Len(oldLines)], Len(oldLines),
                               k - Len(oldLines) - 1)]
    IN  Eager(ops, HunkLoop(ops, 1, NoHunk, <<>>))

computeDiffHunks(oldLines, newLines) ==
    LET lcs == LcsTable(oldLines, newLines)
        ops == Eager(lcs, DiffOps(oldLines, newLines, lcs, 1, 1))
    IN  Eager(ops, HunkLoop(ops, 1, NoHunk, <<>>))

DigitSymbols == << "0", "1", "2", "3", "4", "5", "6", "7", "8", "9" >>

\* fmt.Sprintf of %d for a number that is not negative.
RECURSIVE Decimal(_)
Decimal(n) ==
    IF n < 10 THEN << DigitSymbols[n + 1] >>
    ELSE Decimal(n \div 10) \o << DigitSymbols[(n % 10) + 1] >>

HunkHeader(h) ==
    << "@", "@", " ", "-" >> \o Decimal(h.oldStart + 1) \o << "," >> \o Decimal(h.oldCount)
        \o << " ", "+" >> \o Decimal(h.newStart + 1) \o << "," >> \o Decimal(h.newCount)
        \o << " ", "@", "@" >>

\* The lines of a sequence, each followed by a newline.
RECURSIVE WriteLines(_)
WriteLines(lines) ==
    IF lines = <<>> THEN <<>>
    ELSE Head(lines) \o << NL >> \o WriteLines(Tail(lines))

RECURSIVE WriteHunks(_)
WriteHunks(hunks) ==
    IF hunks = <<>> THEN <<>>
    ELSE HunkHeader(Head(hunks)) \o << NL >> \o WriteLines(Head(hunks).lines)
            \o WriteHunks(Tail(hunks))

createUnifiedDiff(filename, old, new) ==
    LET hunks == computeDiffHunks(splitLines(old), splitLines(new))
    IN  IF hunks = <<>> THEN <<>>
        ELSE << "-", "-", "-", " ", "a", "/" >> \o filename \o << NL >>
                \o << "+", "+", "+", " ", "b", "/" >> \o filename \o << NL >>
                \o WriteHunks(hunks)

toolsDiffPatch(oldFileName, newFileName, hunks) ==
    [oldFileName |-> oldFileName, newFileName |-> newFileName, hunks |-> hunks]

toolsDiffHunk(newStart, lines) == [newStart |-> newStart, lines |-> lines]

NoPatch == [nil |-> TRUE]

\* The text before the first sep, the whole text when it has none.
UpTo(text, sep) ==
    IF IndexOf(text, sep) = 0 THEN text ELSE SubSeq(text, 1, IndexOf(text, sep) - 1)

\* The text after the first sep.
After(text, sep) == SubSeq(text, IndexOf(text, sep) + 1, Len(text))

DigitValue(c) == CHOOSE d \in 0..9 : DigitSymbols[d + 1] = c

IsDigit(c) == \E d \in 0..9 : DigitSymbols[d + 1] = c

\* The number the leading digits of a text spell, after n.
RECURSIVE LeadingNumber(_, _)
LeadingNumber(text, n) ==
    IF text = <<>> \/ ~IsDigit(Head(text)) THEN n
    ELSE LeadingNumber(Tail(text), n * 10 + DigitValue(Head(text)))

parseHunkHeader(line) ==
    IF ~(\E i \in 1..Len(line) : line[i] = "+") THEN 1
    ELSE LET numStr == UpTo(UpTo(After(line, "+"), ","), " ")
             n      == LeadingNumber(numStr, 0)
         IN  IF n = 0 THEN 1 ELSE n

\* A patch with its open hunk, if any, added to its hunks.
ClosePatch(current, currentHunk) ==
    IF currentHunk # NoHunk
    THEN [current EXCEPT !.hunks = Append(current.hunks, currentHunk)]
    ELSE current

\* The line loop of parseUnifiedDiff.
RECURSIVE ParseLines(_, _, _, _)
ParseLines(lines, patchList, current, currentHunk) ==
    IF Eager(<< patchList, current, currentHunk >>, lines = <<>>)
    THEN (IF current # NoPatch THEN Append(patchList, ClosePatch(current, currentHunk))
          ELSE patchList)
    ELSE LET line == Head(lines)
             rest == Tail(lines)
         IN  IF HasPrefix(line, << "-", "-", "-", " " >>)
             THEN ParseLines(rest,
                      IF current # NoPatch
                      THEN Append(patchList, ClosePatch(current, currentHunk))
                      ELSE patchList,
                      toolsDiffPatch(SubSeq(line, 5, Len(line)), <<>>, <<>>), NoHunk)
             ELSE IF HasPrefix(line, << "+", "+", "+", " " >>) /\ current # NoPatch
             THEN ParseLines(rest, patchList,
                      [current EXCEPT !.newFileName = SubSeq(line, 5, Len(line))],
                      currentHunk)
             ELSE IF HasPrefix(line, << "@", "@" >>) /\ current # NoPatch
             THEN ParseLines(rest, patchList, ClosePatch(current, currentHunk),
                      toolsDiffHunk(parseHunkHeader(line), <<>>))
             ELSE IF /\ currentHunk # NoHunk
                     /\ \/ HasPrefix(line, << "+" >>)
                        \/ HasPrefix(line, << "-" >>)
                        \/ HasPrefix(line, << " " >>)
             THEN ParseLines(rest, patchList, current,
                      [currentHunk EXCEPT !.lines = Append(currentHunk.lines, line)])
             ELSE ParseLines(rest, patchList, current, currentHunk)

parseUnifiedDiff(text) == ParseLines(Split(text), <<>>, NoPatch, NoHunk)

(***************************************************************************)
(* SpecDiff: createUnifiedDiff on two texts, then parseUnifiedDiff on the  *)
(* text it returned.  The texts are short texts over lines of every kind,  *)
(* and a long text against every edit of it in up to MaxEdits places.      *)
(***************************************************************************)
DiffLines ==
    { <<>>, << "a" >>, << "b" >>, << "-", "a" >>, << "+", "a" >>, << " ", "a" >>,
      << "@", "@" >>, << "-", "-", " ", "a" >>, << "+", "+", " ", "a" >> }

\* strings.Join(lines, NL)
RECURSIVE JoinLines(_)
JoinLines(lines) ==
    IF lines = <<>> THEN <<>>
    ELSE IF Len(lines) = 1 THEN lines[1]
    ELSE lines[1] \o << NL >> \o JoinLines(Tail(lines))

\* ToolUpdate: the content blocks and the locations of a tool result.
ToolUpdate(content, locations) == [Content |-> content, Locations |-> locations]

NoUpdate == [nil |-> TRUE]

\* acp.ToolDiffContent(path, newText, oldText); hasOld tells whether the old
\* text was passed.
ToolDiffContent(path, newText, hasOld, oldText) ==
    [path |-> path, newText |-> newText, hasOld |-> hasOld, oldText |-> oldText]

ToolCallLocation(path, line) == [Path |-> path, Line |-> line]

\* The lines of a hunk that count as old (other is the mark of an added
\* line) or as new (other is the mark of a removed line), without their
\* first symbol: every line that is not empty and not of the other side.
HunkSide(lines, other) ==
    LET kept == SelectSeq(lines, LAMBDA l : l # <<>> /\ Head(l) # other)
    IN  [i \in 1..Len(kept) |-> Tail(kept[i])]

\* toolUpdateFromToolResult, case Edit: hunk k of a patch.
EditHunkUpdate(p, h) ==
    LET oldLines == HunkSide(h.lines, "+")
        newLines == HunkSide(h.lines, "-")
        fileName == IF p.newFileName # <<>> THEN p.newFileName ELSE p.oldFileName
        oldText  == JoinLines(oldLines)
        newText  == JoinLines(newLines)
    IN  IF oldLines = <<>> /\ newLines = <<>> THEN ToolUpdate(<<>>, <<>>)
        ELSE ToolUpdate(<< ToolDiffContent(fileName, newText, oldText # <<>>, oldText) >>,
                        << ToolCallLocation(fileName, h.newStart) >>)

\* The hunks of all patches, each with its patch, in order.
RECURSIVE PatchHunks(_)
PatchHunks(patchList) ==
    IF patchList = <<>> THEN <<>>
    ELSE [k \in 1..Len(Head(patchList).hunks) |->
              [patch |-> Head(patchList), hunk |-> Head(patchList).hunks[k]]]
         \o PatchHunks(Tail(patchList))

RECURSIVE EditUpdates(_, _)
EditUpdates(ph, k) ==
    IF k > Len(ph) THEN ToolUpdate(<<>>, <<>>)
    ELSE LET one  == EditHunkUpdate(ph[k].patch, ph[k].hunk)
             rest == EditUpdates(ph, k + 1)
         IN  ToolUpdate(one.Content \o rest.Content, one.Locations \o rest.Locations)

toolUpdateFromEditResult(patchList) == EditUpdates(PatchHunks(patchList), 1)

ShortTexts == {JoinLines(ls) : ls \in SeqsUpTo(DiffLines, MaxDiffLines)}

LongLines == [i \in 1..LongLen |-> Decimal(i)]

EditKinds == {"keep", "del", "rep", "ins"}

EditPlans ==
    {e \in [1..LongLen -> EditKinds] :
        Cardinality({i \in 1..LongLen : e[i] # "keep"}) <= MaxEdits}

RECURSIVE Edited(_, _, _)
Edited(lines, plan, i) ==
    IF i > Len(lines) THEN <<>>
    ELSE (CASE plan[i] = "keep" -> << lines[i] >>
            [] plan[i] = "del"  -> <<>>
            [] plan[i] = "rep"  -> << << "x" >> >>
            [] plan[i] = "ins"  -> << << "x" >>, lines[i] >>)
         \o Edited(lines, plan, i + 1)

DiffInputs ==
    (ShortTexts \X ShortTexts)
        \cup {<< JoinLines(LongLines), JoinLines(Edited(LongLines, e, 1)) >> : e \in EditPlans}

FileName == << "f" >>

InitDiff ==
    /\ \E io \in DiffInputs : oldContent = io[1] /\ newContent = io[2]
    /\ diffText = <<>>
    /\ patches = <<>>
    /\ diffPc = "start"
    /\ toolUpdate = NoUpdate
    /\ SettingsIdle
    /\ ExtractIdle
    /\ allowBypass = TRUE
    /\ MachineStart
    /\ RuleIdle
    /\ PermIdle
    /\ InvIdle
    /\ ToolIdle

CreateUnifiedDiff ==
    /\ diffPc = "start"
    /\ diffText' = createUnifiedDiff(FileName, oldContent, newContent)
    /\ diffPc' = "created"
    /\ UNCHANGED <<oldContent, newContent, patches, toolUpdate, settingsVars, extractVars, toolVars, ruleVars, invVars, permVars, machineVars>>

ParseUnifiedDiff ==
    /\ diffPc = "created"
    /\ patches' = parseUnifiedDiff(diffText)
    /\ diffPc' = "parsed"
    /\ UNCHANGED <<oldContent, newContent, diffText, toolUpdate, settingsVars, extractVars, toolVars, ruleVars, invVars, permVars, machineVars>>

\* toolUpdateFromToolResult on the result of the Edit call, whose text is the
\* patch handleEdit returned.
ToolUpdateFromToolResult ==
    /\ diffPc = "parsed"
    /\ toolUpdate = NoUpdate
    /\ toolUpdate' = toolUpdateFromEditResult(patches)
    /\ UNCHANGED <<oldContent, newContent, diffText, patches, diffPc, settingsVars,
                   extractVars, toolVars, ruleVars, invVars, permVars, machineVars>>

NextDiff == CreateUnifiedDiff \/ ParseUnifiedDiff \/ ToolUpdateFromToolResult

SpecDiff == InitDiff /\ [][NextDiff]_vars

(***************************************************************************)
(* The settings manager (tools.go): loadSettingsFile and mergeSettings.     *)
(***************************************************************************)
PermissionSettings(allow, deny, ask, dirs, mode) ==
    [Allow |-> allow, Deny |-> deny, Ask |-> ask,
     AdditionalDirectories |-> dirs, DefaultMode |-> mode]

\* A settings file: missing, malformed (the decoder fails, whatever it had
\* decoded before the failure) or a JSON object.
SettingsFile(kind, json) == [kind |-> kind, json |-> json]

\* os.ReadFile and json.Unmarshal of loadSettingsFile.
loadSettingsFile(file) ==
    IF file.kind = "missing" THEN EmptySettings
    ELSE IF file.kind = "malformed" THEN EmptySettings
    ELSE file.json

\* One round of the loop of mergeSettings.
MergeOne(m, settings) ==
    LET perms ==
            IF settings.Permissions = NilPermissions THEN m.Permissions
            ELSE PermissionSettings(
                     m.Permissions.Allow \o settings.Permissions.Allow,
                     m.Permissions.Deny \o settings.Permissions.Deny,
                     m.Permissions.Ask \o settings.Permissions.Ask,
                     IF Len(settings.Permissions.AdditionalDirectories) > 0
                     THEN m.Permissions.AdditionalDirectories
                              \o settings.Permissions.AdditionalDirectories
                     ELSE m.Permissions.AdditionalDirectories,
                     IF settings.Permissions.DefaultMode # ""
                     THEN settings.Permissions.DefaultMode
                     ELSE m.Permissions.DefaultMode)
        env ==
            IF settings.Env = NilEnv THEN m.Env
            ELSE LET base == IF m.Env = NilEnv THEN << >> ELSE m.Env
                 IN  [k \in DOMAIN base \cup DOMAIN settings.Env |->
                         IF k \in DOMAIN settings.Env THEN settings.Env[k] ELSE base[k]]
        model == IF settings.Model # "" THEN settings.Model ELSE m.Model
    IN  ClaudeCodeSettings(perms, env, model)

RECURSIVE MergeFrom(_, _, _)
MergeFrom(allSettings, i, m) ==
    IF i > Len(allSettings) THEN m
    ELSE MergeFrom(allSettings, i + 1, MergeOne(m, allSettings[i]))

\* Mutant of mergeSettings: the sources are read in the opposite order.
mergeSettings_Reversed(allSettings) ==
    MergeFrom(Reverse(allSettings), 1,
              ClaudeCodeSettings(PermissionSettings(<<>>, <<>>, <<>>, <<>>, ""), NilEnv, ""))

mergeSettings(allSettings) ==
    MergeFrom(allSettings, 1,
              ClaudeCodeSettings(PermissionSettings(<<>>, <<>>, <<>>, <<>>, ""), NilEnv, ""))

(***************************************************************************)
(* SpecSettings: a settings manager is initialized from the four files,    *)
(* disposed and initialized again, while the files are rewritten.          *)
(***************************************************************************)
EnvMap(k1, k2) ==
    [k \in (IF k1 = "" THEN {} ELSE {"K1"}) \cup (IF k2 = "" THEN {} ELSE {"K2"}) |->
        IF k = "K1" THEN k1 ELSE k2]

SettingsFiles ==
    { MissingFile,
      SettingsFile("malformed",
          ClaudeCodeSettings(PermissionSettings(<< <<"Bash">> >>, <<>>, <<>>, <<>>, "plan"),
                             EnvMap("v9", ""), "m9")),
      SettingsFile("json", EmptySettings),
      SettingsFile("json",
          ClaudeCodeSettings(PermissionSettings(<< <<"Read">> >>, << <<"Bash">> >>,
                                                << <<"Edit">>, <<"Read">> >>,
                                                << <<"/", "test">> >>, "plan"),
                             EnvMap("v1", ""), "m1")),
      SettingsFile("json",
          ClaudeCodeSettings(PermissionSettings(<< <<"Bash">>, <<"Read">> >>, <<>>, <<>>,
                                                <<>>, ""),
                             EnvMap("v2", "v1"), "")),
      SettingsFile("json",
          ClaudeCodeSettings(PermissionSettings(<<>>, << <<"Read">> >>, <<>>, <<>>,
                                                "default"),
                             NilEnv, "m2")),
      SettingsFile("json",
          ClaudeCodeSettings(NilPermissions, EnvMap("", "v2"), "m1")) }

InitSettings ==
    /\ settingsFiles \in [1..Len(SettingsSources) -> SettingsFiles]
    /\ sourceSettings = [i \in 1..Len(SettingsSources) |-> EmptySettings]
    /\ merged = EmptySettings
    /\ initialized = FALSE
    /\ fileWrites = 0
    /\ DiffIdle
    /\ ExtractIdle
    /\ allowBypass = TRUE
    /\ MachineStart
    /\ RuleIdle
    /\ PermIdle
    /\ InvIdle
    /\ ToolIdle

\* Initialize with loadAllSettings and mergeSettings; a second call returns
\* at once.
Initialize ==
    /\ ~initialized
    /\ LET loaded == [i \in 1..Len(SettingsSources) |-> loadSettingsFile(settingsFiles[i])]
       IN  /\ sourceSettings' = loaded
           /\ merged' = mergeSettings(loaded)
    /\ initialized' = TRUE
    /\ UNCHANGED <<settingsFiles, fileWrites, diffVars, extractVars, toolVars, ruleVars, invVars, permVars, machineVars>>

Dispose ==
    /\ initialized
    /\ initialized' = FALSE
    /\ UNCHANGED <<settingsFiles, sourceSettings, merged, fileWrites, diffVars, extractVars, toolVars, ruleVars,
                   invVars, permVars, machineVars>>

\* Someone rewrites, creates or removes the settings file of one source.
WriteSettingsFile(i, file) ==
    /\ fileWrites < MaxFileWrites
    /\ file # settingsFiles[i]
    /\ settingsFiles' = [settingsFiles EXCEPT ![i] = file]
    /\ fileWrites' = fileWrites + 1
    /\ UNCHANGED <<sourceSettings, merged, initialized, diffVars, extractVars, toolVars, ruleVars, invVars,
                   permVars, machineVars>>

NextSettings ==
    \/ Initialize
    \/ Dispose
    \/ \E i \in 1..Len(SettingsSources), file \in SettingsFiles : WriteSettingsFile(i, file)

SpecSettings == InitSettings /\ [][NextSettings]_vars

(***************************************************************************)
(* extractLinesWithByteLimit (part_003), as handleRead calls it.  A symbol *)
(* of the text is one byte.                                                *)
(***************************************************************************)
\* The loop of extractLinesWithByteLimit: index, linesSeen and contentLength
\* are the variables of the code (index counted from 0).
RECURSIVE ExtractLoop(_, _, _, _, _)
ExtractLoop(content, limit, index, linesSeen, contentLength) ==
    LET rest      == SubSeq(content, index + 1, Len(content))
        nextIndex == IndexOf(rest, NL) - 1
        newContentLength == nextIndex + index + 1
    IN  IF nextIndex < 0
        THEN IF linesSeen > 0 /\ Len(content) > limit
             THEN ExtractLinesResult(SubSeq(content, 1, contentLength), TRUE, linesSeen)
             ELSE ExtractLinesResult(content, FALSE, linesSeen + 1)
        ELSE IF linesSeen > 0 /\ newContentLength > limit
             THEN ExtractLinesResult(SubSeq(content, 1, contentLength), TRUE, linesSeen)
             ELSE ExtractLoop(content, limit, newContentLength, linesSeen + 1,
                              newContentLength)

extractLinesWithByteLimit(content, limit) ==
    IF content = <<>> THEN ExtractLinesResult(<<>>, FALSE, 1)
    ELSE ExtractLoop(content, limit, 0, 0, 0)

(***************************************************************************)
(* SpecExtract: one call of extractLinesWithByteLimit on any short text    *)
(* with any small limit.                                                   *)
(***************************************************************************)
ExtractTexts == SeqsUpTo({"a", NL}, MaxContentLen)

InitExtract ==
    /\ fullContent \in ExtractTexts
    /\ maxContentLength \in 0..MaxLimit
    /\ extractResult = NoExtract
    /\ DiffIdle
    /\ SettingsIdle
    /\ allowBypass = TRUE
    /\ MachineStart
    /\ RuleIdle
    /\ PermIdle
    /\ InvIdle
    /\ ToolIdle

ExtractLines ==
    /\ extractResult = NoExtract
    /\ extractResult' = extractLinesWithByteLimit(fullContent, maxContentLength)
    /\ UNCHANGED <<fullContent, maxContentLength, diffVars, settingsVars, toolVars, ruleVars, invVars,
                   permVars, machineVars>>

NextExtract == ExtractLines

SpecExtract == InitExtract /\ [][NextExtract]_vars

(***************************************************************************)
(* The built-in tool handlers (src/unnamed/part_001): handleBash with the  *)
(* terminal of the client.                                                 *)
(***************************************************************************)
TerminalIds == {"term1", "term2"}

\* How the command of a terminal ends by itself: with an exit code or by a
\* signal.
ExitKinds == {"code0", "code1", "signal"}

\* The timeout input of a Bash call in milliseconds; -1 when it is absent.
TimeoutInputs == {-1, 1000}

\* formatToolCommandOutput; exitCode is -1 for a nil pointer.
formatToolCommandOutput(status, output, exitCode, signal, truncated) ==
    (CASE status \in {"started", "exited"} ->
            IF exitCode = -1 /\ signal = "" THEN << "Interrupted by the user. " >> ELSE <<>>
       [] status = "killed" -> << "Killed. " >>
       [] status = "timedOut" -> << "Timed out. " >>
       [] OTHER -> <<>>)
    \o (IF exitCode # -1 THEN << "Exited with code " >> \o Decimal(exitCode) \o << "." >>
        ELSE <<>>)
    \o (IF signal # "" THEN << "Signal ", signal, ". " >> ELSE <<>>)
    \o (IF exitCode # -1 \/ signal # "" THEN << "Final output:", NL, NL >>
        ELSE << "New output:", NL, NL >>)
    \o output
    \o (IF truncated THEN << NL, NL, "Command output was too long, so it was truncated to " >>
             \o Decimal(Len(output)) \o << " bytes." >>
        ELSE <<>>)

\* The return of a handler: (text, isError, nil).
BashReturns(b, text, isError) ==
    [b EXCEPT !.pc = "done", !.text = text, !.isError = isError, !.err = FALSE]

\* handleBash, lines 191-200: the inputs.
HandleBash(command, timeout, runInBackground) ==
    /\ bash.pc = "idle"
    /\ edit.pc = "idle"
    /\ bash' = IF ~command
               THEN BashReturns(bash, << "command is required" >>, TRUE)
               ELSE [bash EXCEPT !.pc = "create", !.command = TRUE,
                                 !.timeoutMs = IF timeout # -1 THEN timeout ELSE 2 * 60 * 1000,
                                 !.background = runInBackground]
    /\ UNCHANGED <<edit, toolCall, diffVars, settingsVars, extractVars, ruleVars, invVars, permVars, machineVars>>

\* handleBash, lines 201-213: conn.CreateTerminal, and the return of a
\* background call.
CreateTerminal(ok, id) ==
    /\ bash.pc = "create"
    /\ bash' = IF ~ok
               THEN BashReturns(bash, << "Running bash command failed: " >>, TRUE)
               ELSE LET b == [bash EXCEPT !.terminalID = id, !.terminals = {id},
                                          !.running = TRUE]
                    IN  IF bash.background
                        THEN BashReturns(b, << "Command started in background with id: ",
                                               id >>, FALSE)
                        ELSE [b EXCEPT !.pc = "wait"]
    /\ UNCHANGED <<edit, toolCall, diffVars, settingsVars, extractVars, ruleVars, invVars, permVars, machineVars>>

\* The command of the terminal ends by itself.
CommandExits(kind) ==
    /\ bash.running
    /\ bash' = [bash EXCEPT !.running = FALSE, !.exit = kind]
    /\ UNCHANGED <<edit, toolCall, diffVars, settingsVars, extractVars, ruleVars, invVars, permVars, machineVars>>

\* The deadline of waitCtx (line 214) expires.
DeadlineExpires ==
    /\ bash.pc = "wait"
    /\ ~bash.deadline
    /\ bash' = [bash EXCEPT !.deadline = TRUE]
    /\ UNCHANGED <<edit, toolCall, diffVars, settingsVars, extractVars, ruleVars, invVars, permVars, machineVars>>

\* The wait request fails on the connection.
WaitFails ==
    /\ bash.pc = "wait"
    /\ ~bash.waitFailed
    /\ bash' = [bash EXCEPT !.waitFailed = TRUE]
    /\ UNCHANGED <<edit, toolCall, diffVars, settingsVars, extractVars, ruleVars, invVars, permVars, machineVars>>

\* handleBash, lines 216-239: conn.WaitForTerminalExit returns the exit of the
\* command.
WaitReturnsExit ==
    /\ bash.pc = "wait"
    /\ bash.exit \in ExitKinds
    /\ bash' = [bash EXCEPT !.pc = "output", !.status = "exited",
                            !.exitCode = CASE bash.exit = "code0" -> 0
                                           [] bash.exit = "code1" -> 1
                                           [] OTHER -> -1,
                            !.signal = IF bash.exit = "signal" THEN "SIGTERM" ELSE ""]
    /\ UNCHANGED <<edit, toolCall, diffVars, settingsVars, extractVars, ruleVars, invVars, permVars, machineVars>>

\* A handleBash whose wait never kills.
WaitReturnsError_NoKill ==
    /\ bash.pc = "wait"
    /\ bash.deadline \/ bash.waitFailed
    /\ bash' = [bash EXCEPT !.pc = "output",
                            !.status = IF bash.deadline THEN "timedOut" ELSE "exited"]
    /\ UNCHANGED <<edit, toolCall, diffVars, settingsVars, extractVars, ruleVars, invVars, permVars, machineVars>>

\* handleBash, lines 216-233: conn.WaitForTerminalExit returns an error; with
\* the deadline expired the handler sends the kill request, which ends a
\* command that still runs.
WaitReturnsError ==
    /\ bash.pc = "wait"
    /\ bash.deadline \/ bash.waitFailed
    /\ bash' = IF bash.deadline
               THEN [bash EXCEPT !.pc = "output", !.status = "timedOut",
                                 !.kills = Append(bash.kills, bash.terminalID),
                                 !.running = FALSE,
                                 !.exit = IF bash.running THEN "killed" ELSE bash.exit]
               ELSE [bash EXCEPT !.pc = "output", !.status = "exited"]
    /\ UNCHANGED <<edit, toolCall, diffVars, settingsVars, extractVars, ruleVars, invVars, permVars, machineVars>>

\* A handleBash that returns when the output cannot be retrieved.
TerminalOutput_ReturnOnError(ok, truncated) ==
    /\ bash.pc = "output"
    /\ bash' = IF ok
               THEN [bash EXCEPT !.pc = "release", !.outputOk = ok, !.text = << "out" >>,
                                 !.isError = truncated]
               ELSE BashReturns(bash, << "Retrieving bash output failed: " >>, TRUE)
    /\ UNCHANGED <<edit, toolCall, diffVars, settingsVars, extractVars, ruleVars, invVars, permVars, machineVars>>

\* handleBash, lines 240-249: conn.TerminalOutput, its error ignored.
TerminalOutput(ok, truncated) ==
    /\ bash.pc = "output"
    /\ bash' = [bash EXCEPT !.pc = "release", !.outputOk = ok,
                            !.text = IF ok THEN << "out" >> ELSE <<>>,
                            !.isError = ok /\ truncated]
    /\ UNCHANGED <<edit, toolCall, diffVars, settingsVars, extractVars, ruleVars, invVars, permVars, machineVars>>

\* handleBash, lines 250-254: conn.ReleaseTerminal and the return.
ReleaseTerminal ==
    /\ bash.pc = "release"
    /\ bash' = BashReturns([bash EXCEPT !.releases = Append(bash.releases, bash.terminalID)],
                           formatToolCommandOutput(bash.status, bash.text, bash.exitCode,
                                                   bash.signal, bash.isError),
                           FALSE)
    /\ UNCHANGED <<edit, toolCall, diffVars, settingsVars, extractVars, ruleVars, invVars, permVars, machineVars>>

InitBash ==
    /\ allowBypass = TRUE
    /\ MachineStart
    /\ RuleIdle
    /\ PermIdle
    /\ InvIdle
    /\ UtilIdle

NextBash ==
    \/ \E command \in BOOLEAN, timeout \in TimeoutInputs, bg \in BOOLEAN :
            HandleBash(command, timeout, bg)
    \/ \E ok \in BOOLEAN, id \in TerminalIds : CreateTerminal(ok, id)
    \/ \E kind \in ExitKinds : CommandExits(kind)
    \/ DeadlineExpires
    \/ WaitFails
    \/ WaitReturnsExit
    \/ WaitReturnsError
    \/ \E ok \in BOOLEAN, truncated \in BOOLEAN : TerminalOutput(ok, truncated)
    \/ ReleaseTerminal

SpecBash == InitBash /\ [][NextBash]_vars

(***************************************************************************)
(* handleEdit and replaceAndCalculateLocation (src/unnamed/part_001), on   *)
(* one file of the client.                                                 *)
(***************************************************************************)
MaxFileLen == 3   \* longest file content given to handleEdit, in symbols
MaxOldLen  == 2   \* longest old_string
MaxNewLen  == 2   \* longest new_string

FileSymbols == {"a", NL}

NewSymbols == {"a", "b", NL}

CR == "\r"

\* The file_path input: absent, a path of the client, or a path under the
\* configuration directory (isInternalPath).
EditPaths == {"", "/w/f", "~/.claude/projects/f"}

\* The marker texts of one call, markerPrefix with the counter: each is one
\* symbol, and the random string of the prefix occurs in no input.
Markers ==
    << "__REPLACE_MARKER_r_0__", "__REPLACE_MARKER_r_1__", "__REPLACE_MARKER_r_2__",
       "__REPLACE_MARKER_r_3__", "__REPLACE_MARKER_r_4__", "__REPLACE_MARKER_r_5__",
       "__REPLACE_MARKER_r_6__", "__REPLACE_MARKER_r_7__" >>

\* strings.Index(s[from:], sub) + from with places counted from 1: 0 when sub
\* does not occur at or after from.
Index(s, sub, from) ==
    LET at == {i \in from..(Len(s) - Len(sub) + 1) : SubSeq(s, i, i + Len(sub) - 1) = sub}
    IN  IF at = {} THEN 0 ELSE Min(at)

\* countLines: the line breaks of a text, a carriage return with its newline
\* being one.
countLines(text) ==
    Cardinality({i \in 1..Len(text) :
                    \/ text[i] = CR
                    \/ text[i] = NL /\ ~(i > 1 /\ text[i - 1] = CR)})

EditOperation(oldText, newText, replaceAll) ==
    [OldText |-> oldText, NewText |-> newText, ReplaceAll |-> replaceAll]

\* What replaceAndCalculateLocation returns; err is the empty string for nil.
ReplaceResult(content, lineNumbers, err) ==
    [content |-> content, lineNumbers |-> lineNumbers, err |-> err]

\* The loop of the replace_all branch, lines 352-372: the search goes on in
\* currentContent behind the last occurrence, parts is what was appended.
RECURSIVE ReplaceAllLoop(_, _, _, _, _)
ReplaceAllLoop(currentContent, e, lastIndex, markerCounter, parts) ==
    LET idx == Index(currentContent, e.OldText, lastIndex)
    IN  IF Eager(parts, idx = 0)
        THEN [content |-> parts \o SubSeq(currentContent, lastIndex, Len(currentContent)),
              markerCounter |-> markerCounter]
        ELSE ReplaceAllLoop(currentContent, e, idx + Len(e.OldText), markerCounter + 1,
                            parts \o SubSeq(currentContent, lastIndex, idx - 1)
                                  \o << Markers[markerCounter + 1] >> \o e.NewText)

\* Lines 393-399: the line of each marker that is found.
RECURSIVE MarkerLines(_, _, _)
MarkerLines(currentContent, n, k) ==
    IF k > n THEN <<>>
    ELSE LET idx == Index(currentContent, << Markers[k] >>, 1)
         IN  (IF idx # 0 THEN << countLines(SubSeq(currentContent, 1, idx - 1)) >> ELSE <<>>)
                 \o MarkerLines(currentContent, n, k + 1)

\* Lines 402-405: strings.Replace(finalContent, marker, "", 1) for each marker.
RECURSIVE RemoveMarkers(_, _, _)
RemoveMarkers(content, n, k) ==
    IF k > n THEN content
    ELSE LET idx == Index(content, << Markers[k] >>, 1)
         IN  RemoveMarkers(IF idx = 0 THEN content
                           ELSE SubSeq(content, 1, idx - 1) \o SubSeq(content, idx + 1, Len(content)),
                           n, k + 1)

\* Lines 408-416: the numbers without repetition, then sort.Ints.
RECURSIVE SortInts(_)
SortInts(S) == IF S = {} THEN <<>> ELSE << Min(S) >> \o SortInts(S \ {Min(S)})

Located(currentContent, n) ==
    LET lines == MarkerLines(currentContent, n, 1)
    IN  ReplaceResult(RemoveMarkers(currentContent, n, 1),
                      SortInts({lines[i] : i \in 1..Len(lines)}), "")

\* Mutant of replaceAndCalculateLocation: ReplaceAll is not looked at.
replaceAndCalculateLocation_FirstOnly(fileContent, e) ==
    IF e.OldText = <<>> THEN ReplaceResult(<<>>, <<>>, "empty")
    ELSE LET idx == Index(fileContent, e.OldText, 1)
         IN  IF idx = 0 THEN ReplaceResult(<<>>, <<>>, "absent")
             ELSE Located(SubSeq(fileContent, 1, idx - 1) \o << Markers[1] >> \o e.NewText
                              \o SubSeq(fileContent, idx + Len(e.OldText), Len(fileContent)),
                          1)

\* replaceAndCalculateLocation(fileContent, []EditOperation{e}).
replaceAndCalculateLocation(fileContent, e) ==
    IF e.OldText = <<>> THEN ReplaceResult(<<>>, <<>>, "empty")
    ELSE IF e.ReplaceAll
    THEN LET all == ReplaceAllLoop(fileContent, e, 1, 0, <<>>)
         IN  IF all.markerCounter = 0 THEN ReplaceResult(<<>>, <<>>, "absent")
             ELSE Located(all.content, all.markerCounter)
    ELSE LET idx == Index(fileContent, e.OldText, 1)
         IN  IF idx = 0 THEN ReplaceResult(<<>>, <<>>, "absent")
             ELSE Located(SubSeq(fileContent, 1, idx - 1) \o << Markers[1] >> \o e.NewText
                              \o SubSeq(fileContent, idx + Len(e.OldText), Len(fileContent)),
                          1)

\* The return of handleEdit: (text, isError, nil).
EditReturns(e, text, isError) ==
    [e EXCEPT !.pc = "done", !.text = text, !.isError = isError, !.err = FALSE]

\* handleBuiltinTool for Edit and handleEdit, lines 141-147: the inputs.
HandleEdit(filePath, oldString, newString, replaceAll) ==
    /\ edit.pc = "idle"
    /\ bash.pc = "idle"
    /\ edit' = IF filePath = ""
               THEN EditReturns(edit, << "file_path is required" >>, TRUE)
               ELSE [edit EXCEPT !.pc = "read", !.filePath = filePath,
                                 !.oldString = oldString, !.newString = newString,
                                 !.replaceAll = replaceAll]
    /\ UNCHANGED <<bash, toolCall, diffVars, settingsVars, extractVars, ruleVars, invVars, permVars, machineVars>>

\* handleEdit, lines 149-172: os.ReadFile or conn.ReadTextFile, then
\* replaceAndCalculateLocation and createUnifiedDiff.
ReadTextFile(ok) ==
    /\ edit.pc = "read"
    /\ edit' = IF ~ok
               THEN EditReturns(edit, << "Editing file failed: ", "read" >>, TRUE)
               ELSE LET r == replaceAndCalculateLocation(
                                 edit.file,
                                 EditOperation(edit.oldString, edit.newString, edit.replaceAll))
                        e == [edit EXCEPT !.fileContent = edit.file, !.replaced = r]
                    IN  IF r.err # ""
                        THEN EditReturns(e, << "Editing file failed: ", r.err >>, TRUE)
                        ELSE [e EXCEPT !.pc = "write",
                                       !.text = createUnifiedDiff(FileName, edit.file, r.content)]
    /\ UNCHANGED <<bash, toolCall, diffVars, settingsVars, extractVars, ruleVars, invVars, permVars, machineVars>>

\* handleEdit, lines 173-187: os.WriteFile or conn.WriteTextFile with the new
\* content, and the return.
WriteTextFile(ok) ==
    /\ edit.pc = "write"
    /\ edit' = LET e == [edit EXCEPT !.writes = Append(edit.writes, edit.replaced.content)]
               IN  IF ~ok
                   THEN EditReturns(e, << "Editing file failed: ", "write" >>, TRUE)
                   ELSE EditReturns([e EXCEPT !.file = edit.replaced.content], edit.text, FALSE)
    /\ UNCHANGED <<bash, toolCall, diffVars, settingsVars, extractVars, ruleVars, invVars, permVars, machineVars>>

\* One handleBuiltinTool call, for Bash or for Edit, with a file at the
\* client.
InitBuiltin ==
    /\ \E f \in SeqsUpTo(FileSymbols, MaxFileLen) : edit = [IdleEdit EXCEPT !.file = f]
    /\ bash = IdleBash
    /\ toolCall = IdleToolCall
    /\ DiffIdle
    /\ SettingsIdle
    /\ ExtractIdle
    /\ allowBypass = TRUE
    /\ MachineStart
    /\ RuleIdle
    /\ PermIdle
    /\ InvIdle

NextEdit ==
    \/ \E path \in EditPaths, old \in SeqsUpTo(FileSymbols, MaxOldLen),
          new \in SeqsUpTo(NewSymbols, MaxNewLen), all \in BOOLEAN :
            HandleEdit(path, old, new, all)
    \/ \E ok \in BOOLEAN : ReadTextFile(ok)
    \/ \E ok \in BOOLEAN : WriteTextFile(ok)

NextBuiltin == NextBash \/ NextEdit

SpecBuiltin == InitBuiltin /\ [][NextBuiltin]_vars

(***************************************************************************)
(* toolInfoFromToolUse (src/tools.go): the cases Task and Other and the    *)
(* default of its switch.  An input is a map from keys to strings.         *)
(***************************************************************************)
\* The case labels of the switch.
StartMappingNames ==
    {"Task", "NotebookRead", "NotebookEdit", "Bash", "mcp__acp__Bash", "BashOutput",
     "mcp__acp__BashOutput", "KillShell", "mcp__acp__KillShell", "mcp__acp__Read", "Read",
     "LS", "mcp__acp__Edit", "Edit", "mcp__acp__Write", "Write", "Glob", "Grep", "WebFetch",
     "WebSearch", "TodoWrite", "ExitPlanMode", "Other"}

\* The tool names a call is made with: two of the table, the blank name and
\* two that no case has.
ToolNames == {"Task", "Other", "", "SomeUnknownTool", "mcp__github__search"}

\* The keys of an input, in the order encoding/json writes them.
ToolInputKeys == << "description", "prompt", "query" >>

ToolInputValues == {"v", "w"}

ToolInputs ==
    UNION {[K -> ToolInputValues] : K \in SUBSET {ToolInputKeys[i] : i \in 1..Len(ToolInputKeys)}}

inputStr(input, key) == IF key \in DOMAIN input THEN input[key] ELSE ""

\* The members of a map from the k-th key on, one line each, indented by two
\* spaces and separated by a comma.
RECURSIVE MarshalMembers(_, _, _)
MarshalMembers(input, k, first) ==
    IF k > Len(ToolInputKeys) THEN <<>>
    ELSE IF ToolInputKeys[k] \notin DOMAIN input THEN MarshalMembers(input, k + 1, first)
    ELSE (IF first THEN <<>> ELSE << "," >>)
            \o << NL, "  ", "\"", ToolInputKeys[k], "\"", ": ", "\"", input[ToolInputKeys[k]], "\"" >>
            \o MarshalMembers(input, k + 1, FALSE)

\* json.MarshalIndent(input, "", "  ") of a map of strings.
MarshalIndent(input) ==
    IF DOMAIN input = {} THEN << "{", "}" >>
    ELSE << "{" >> \o MarshalMembers(input, 1, TRUE) \o << NL, "}" >>

\* acp.ToolContent(acp.TextBlock(text))
ToolContent(text) == [type |-> "content", text |-> text]

ToolInfo(title, kind, content) ==
    [Title |-> title, Kind |-> kind, Content |-> content, Locations |-> <<>>]

\* toolInfoFromToolUse for a name of ToolNames.
toolInfoFromToolUse(name, input) ==
    CASE name = "Task" ->
            ToolInfo(IF inputStr(input, "description") # "" THEN inputStr(input, "description")
                     ELSE "Task",
                     "think",
                     IF inputStr(input, "prompt") # ""
                     THEN << ToolContent(<< inputStr(input, "prompt") >>) >> ELSE <<>>)
      [] name = "Other" ->
            ToolInfo(IF name = "" THEN "Unknown Tool" ELSE name, "other",
                     << ToolContent(<< Backquote, Backquote, Backquote, "json", NL >>
                                        \o MarshalIndent(input)
                                        \o << Backquote, Backquote, Backquote >>) >>)
      [] name \notin StartMappingNames ->
            ToolInfo(IF name = "" THEN "Unknown Tool" ELSE name, "other", <<>>)

ToolInfoFromToolUse ==
    /\ ~toolCall.called
    /\ toolCall' = [toolCall EXCEPT !.called = TRUE,
                                    !.info = toolInfoFromToolUse(toolCall.name, toolCall.input)]
    /\ UNCHANGED <<bash, edit, diffVars, settingsVars, extractVars, ruleVars, invVars, permVars, machineVars>>

InitToolInfo ==
    /\ \E name \in ToolNames, input \in ToolInputs :
            toolCall = [IdleToolCall EXCEPT !.name = name, !.input = input]
    /\ bash = IdleBash
    /\ edit = IdleEdit
    /\ DiffIdle
    /\ SettingsIdle
    /\ ExtractIdle
    /\ allowBypass = TRUE
    /\ MachineStart
    /\ RuleIdle
    /\ PermIdle
    /\ InvIdle

SpecToolInfo == InitToolInfo /\ [][ToolInfoFromToolUse]_vars

(***************************************************************************)
(* Claims on the diff engine.                                              *)
(***************************************************************************)
OldLines == splitLines(oldContent)

NewLines == splitLines(newContent)

RECURSIVE HunksOf(_)
HunksOf(patchList) ==
    IF patchList = <<>> THEN <<>> ELSE Head(patchList).hunks \o HunksOf(Tail(patchList))

\* Rebuilding: i is the next line of A, out the lines of B built so far.
Built(ok, i, out) == [ok |-> ok, i |-> i, out |-> out]

\* The lines of one hunk applied: a context line and a removed line must be
\* the next line of A; a context line and an added line go to the output.
RECURSIVE ApplyHunkLines(_, _, _)
ApplyHunkLines(A, st, lines) ==
    IF Eager(st, lines = <<>> \/ ~st.ok) THEN st
    ELSE LET line == Head(lines)
             text == Tail(line)
             inA  == st.i <= Len(A) /\ A[st.i] = text
         IN  ApplyHunkLines(A,
                 CASE Head(line) = " " -> Built(inA, st.i + 1, Append(st.out, text))
                   [] Head(line) = "-" -> Built(inA, st.i + 1, st.out)
                   [] OTHER            -> Built(TRUE, st.i, Append(st.out, text)),
                 Tail(lines))

\* One hunk applied: the lines of A before the hunk are copied until the
\* output stands at the new start of the hunk.
ApplyHunk(A, st, h) ==
    LET gap == (h.newStart - 1) - Len(st.out)
    IN  IF ~st.ok \/ gap < 0 \/ st.i + gap - 1 > Len(A) THEN Built(FALSE, st.i, st.out)
        ELSE ApplyHunkLines(A,
                 Built(TRUE, st.i + gap, st.out \o SubSeq(A, st.i, st.i + gap - 1)),
                 h.lines)

RECURSIVE ApplyHunks(_, _, _)
ApplyHunks(A, st, hunks) ==
    IF Eager(st, hunks = <<>>) THEN st
    ELSE ApplyHunks(A, ApplyHunk(A, st, Head(hunks)), Tail(hunks))

\* B as the hunks rebuild it from A; a failure when they do not fit A.
Rebuilt(A, hunks) ==
    LET st == ApplyHunks(A, Built(TRUE, 1, <<>>), hunks)
    IN  IF st.ok THEN st.out \o SubSeq(A, st.i, Len(A)) ELSE << "#failed" >>

\* C11: the hunks parsed from the diff of A and B hold, as removed and context
\* lines, the lines of A they cover and, as added and context lines, the lines
\* of B they cover, so that they rebuild B from A; the diff of equal texts is
\* empty and gives no hunk.
C11_DiffRoundTrip ==
    diffPc = "parsed" =>
        /\ Rebuilt(OldLines, HunksOf(patches)) = NewLines
        /\ OldLines = NewLines => (diffText = <<>> /\ patches = <<>>)

\* The lines of the diff text after its two file headers.
DiffBody ==
    LET lines == Split(diffText)
    IN  IF Len(lines) <= 2 THEN <<>> ELSE SubSeq(lines, 3, Len(lines))

Marked(mark) ==
    LET body == DiffBody
        at   == {i \in 1..Len(body) : body[i] # <<>> /\ Head(body[i]) = mark}
        RECURSIVE Pick(_)
        Pick(i) == IF i > Len(body) THEN <<>>
                   ELSE (IF i \in at THEN << Tail(body[i]) >> ELSE <<>>) \o Pick(i + 1)
    IN  Pick(1)

AddedLines == Marked("+")

RemovedLines == Marked("-")

RECURSIVE IsSubsequence(_, _)
IsSubsequence(xs, ys) ==
    IF xs = <<>> THEN TRUE
    ELSE IF ys = <<>> THEN FALSE
    ELSE IF Head(xs) = Head(ys) THEN IsSubsequence(Tail(xs), Tail(ys))
    ELSE IsSubsequence(xs, Tail(ys))

Count(line, lines) == Cardinality({i \in 1..Len(lines) : lines[i] = line})

\* The added lines are, line by line counted, what the new lines hold more
\* than the old ones.
AddedAreInserted ==
    \A i \in 1..Len(NewLines) :
        Count(NewLines[i], AddedLines)
            = Count(NewLines[i], NewLines) - Count(NewLines[i], OldLines)

\* C12: the diff of X and Y is the empty string exactly when X = Y; when Y is
\* X with lines only inserted the diff holds those lines as added lines and no
\* removed line; when Y is X with lines only deleted it holds no added line.
C12_EmptyDiffIffEqual ==
    diffPc # "start" =>
        /\ (diffText = <<>>) <=> (oldContent = newContent)
        /\ IsSubsequence(OldLines, NewLines) =>
               /\ RemovedLines = <<>>
               /\ Len(AddedLines) = Len(NewLines) - Len(OldLines)
               /\ AddedAreInserted
        /\ IsSubsequence(NewLines, OldLines) => AddedLines = <<>>

\* Lines inserted into a text that had lines, and the diff made.
C12_Witness ==
    /\ diffPc = "created"
    /\ OldLines # <<>>
    /\ IsSubsequence(OldLines, NewLines)
    /\ Len(AddedLines) = 2
    /\ RemovedLines = <<>>

(***************************************************************************)
(* Claims on rule parsing.                                                 *)
(***************************************************************************)
\* The text between the first opening parenthesis and a closing one at the
\* end of a rule string that starts with a word; <<>> for every other string.
RuleInner(rule) ==
    LET open == IndexOf(rule, "(")
        n    == Len(rule)
    IN  IF open > 1 /\ IsWord(SubSeq(rule, 1, open - 1)) /\ n >= open + 2 /\ rule[n] = ")"
        THEN SubSeq(rule, open + 1, n - 1)
        ELSE <<>>

\* What the three forms stand for: Name, Name(arg) and Name(prefix:*).
ExpectedRule(rule) ==
    LET inner == RuleInner(rule)
        name  == SubSeq(rule, 1, IndexOf(rule, "(") - 1)
    IN  IF IsWord(rule) THEN ParsedRule(rule, <<>>, FALSE)
        ELSE IF inner = <<>> THEN ParsedRule(rule, <<>>, FALSE)
        ELSE IF HasSuffix(inner, <<":", "*">>)
             THEN ParsedRule(name, SubSeq(inner, 1, Len(inner) - 2), TRUE)
             ELSE ParsedRule(name, inner, FALSE)

\* C13: parseRule gives (Name, no argument, not wildcard) for Name, (Name, arg,
\* not wildcard) for Name(arg) with any non-empty arg, (Name, prefix, wildcard)
\* for Name(prefix:*), and the whole string as the name for every other string.
C13_ParseRuleExact ==
    parsed # NoRule => parsed = ExpectedRule(ruleStr)

(***************************************************************************)
(* Claims on the settings manager.                                         *)
(***************************************************************************)
\* What a source contributes: the settings of its file, nothing when the
\* file is missing or malformed.
Contributes(files, i) == files[i].kind = "json"

HasPermissions(files, i) ==
    Contributes(files, i) /\ files[i].json.Permissions # NilPermissions

ListOf(files, i, list) ==
    IF HasPermissions(files, i) THEN files[i].json.Permissions[list] ELSE <<>>

ConcatenatedList(files, list) ==
    ListOf(files, 1, list) \o ListOf(files, 2, list)
        \o ListOf(files, 3, list) \o ListOf(files, 4, list)

DefaultModeOf(files, i) ==
    IF HasPermissions(files, i) THEN files[i].json.Permissions.DefaultMode ELSE ""

ModelOf(files, i) == IF Contributes(files, i) THEN files[i].json.Model ELSE ""

\* The value of the last source, in the order of the sources, that has one.
LastSet(files, ValueOf(_, _)) ==
    LET setters == {i \in 1..Len(SettingsSources) : ValueOf(files, i) # ""}
    IN  IF setters = {} THEN ""
        ELSE ValueOf(files, CHOOSE i \in setters : \A j \in setters : j <= i)

EnvOf(files, i, key) ==
    IF Contributes(files, i) /\ files[i].json.Env # NilEnv /\ key \in DOMAIN files[i].json.Env
    THEN files[i].json.Env[key]
    ELSE ""

EnvLookup(env, key) == IF env # NilEnv /\ key \in DOMAIN env THEN env[key] ELSE ""

MergedAsStated(m, files) ==
    /\ m.Permissions # NilPermissions
    /\ m.Permissions.Allow = ConcatenatedList(files, "Allow")
    /\ m.Permissions.Deny = ConcatenatedList(files, "Deny")
    /\ m.Permissions.Ask = ConcatenatedList(files, "Ask")
    /\ m.Permissions.DefaultMode = LastSet(files, DefaultModeOf)
    /\ m.Model = LastSet(files, ModelOf)
    /\ \A key \in {"K1", "K2"} :
           EnvLookup(m.Env, key) = LastSet(files, LAMBDA f, i : EnvOf(f, i, key))

\* C14: what Initialize leaves as merged settings has, for allow, deny and
\* ask, the lists of user, project, project-local and enterprise settings
\* concatenated in that order, for defaultMode and model the value of the
\* last source that sets one, and for env the union in which a later source
\* overwrites; a missing or malformed file contributes nothing and the load
\* does not fail.
C14_SettingsMerge ==
    [][(~initialized /\ initialized') => MergedAsStated(merged', settingsFiles)]_vars

\* Loaded from a user file and a local file with rules, a malformed project
\* file and a missing enterprise file.
C14_Witness ==
    /\ initialized
    /\ fileWrites = 0
    /\ settingsFiles[2].kind = "malformed"
    /\ settingsFiles[4].kind = "missing"
    /\ Len(merged.Permissions.Allow) = 3
    /\ merged.Permissions.Allow[1] = <<"Read">>
    /\ merged.Permissions.DefaultMode = "plan"
    /\ EnvLookup(merged.Env, "K1") = "v2"

(***************************************************************************)
(* Claims on the byte-limited line extraction.                             *)
(***************************************************************************)
\* The lines of the text given, each with the newline that ends it; the last
\* one has none.
InputLines ==
    LET pieces == Split(fullContent)
    IN  [i \in 1..Len(pieces) |->
            IF i < Len(pieces) THEN Append(pieces[i], NL) ELSE pieces[i]]

RECURSIVE Concat(_, _)
Concat(lines, n) == IF n = 0 THEN <<>> ELSE Concat(lines, n - 1) \o lines[n]

\* The numbers n such that the content is the first n lines of the input.
WholeLines(content) == {n \in 0..Len(InputLines) : Concat(InputLines, n) = content}

C15_Stated(r) ==
    /\ r.Content = <<>> => fullContent = <<>>
    /\ r.Content # <<>> =>
           /\ HasPrefix(r.Content, InputLines[1])
           /\ \E n \in WholeLines(r.Content) :
                  /\ r.LinesRead = n
                  /\ n > 1 => Len(r.Content) <= maxContentLength
                  /\ (n > 1 /\ n < Len(InputLines)) =>
                         Len(r.Content) + Len(InputLines[n + 1]) > maxContentLength
    /\ r.WasLimited <=> (r.Content # fullContent)

\* C15: the Content returned is a prefix of the input made of whole lines and
\* holds the complete first line; with more than the first line it is no
\* longer than the limit and the next line would not have fitted; WasLimited
\* is true exactly when part of the input was left out; LinesRead is the number
\* of lines taken into Content.
C15_ExtractLines ==
    extractResult # NoExtract => C15_Stated(extractResult)

(***************************************************************************)
(* Claims on SetSessionMode.                                               *)
(***************************************************************************)
\* The request names a session of the registry and a mode of the list that
\* is allowed now.
Acceptable(s, m) == s \in sessions /\ m \in C9_Allowed

\* C16: a SetSessionMode request for a session that is not in the registry or
\* for a mode outside the allowed list returns an error and changes the mode
\* of no session; a request for an existing session and an allowed mode sets
\* the mode of that session only and returns success.
C16_SetSessionModeErrors ==
    [][\A s \in SessionIds, m \in RequestedModes :
          SetSessionMode(s, m) =>
              /\ lastSetMode'.ok = Acceptable(s, m)
              /\ Acceptable(s, m) => sess'[s].permissionMode = m
              /\ \A x \in SessionIds :
                     (x # s \/ ~Acceptable(s, m)) =>
                         sess'[x].permissionMode = sess[x].permissionMode]_vars

\* A refused request on a session whose mode an earlier request had set, with
\* another session in the registry.
C16_Witness ==
    /\ lastSetMode # NoSetMode
    /\ ~lastSetMode.ok
    /\ lastSetMode.session \in sessions
    /\ sess[lastSetMode.session].permissionMode = "plan"
    /\ \E x \in sessions : x # lastSetMode.session

(***************************************************************************)
(* Claims on denied command prefixes.                                      *)
(***************************************************************************)
\* A deny rule Bash(P:*) whose prefix P starts the command being checked.
DeniedPrefix ==
    /\ mergedSettings # NoPermissions
    /\ toolName = AcpTool("Bash")
    /\ \E i \in 1..Len(mergedSettings.Deny) :
           /\ IsBashPrefixRule(mergedSettings.Deny[i])
           /\ HasPrefix(toolInput.command, PrefixOf(mergedSettings.Deny[i]))

\* C17: when the settings hold a deny rule Bash(P:*) and the command of
\* mcp__acp__Bash starts with P, whatever follows P and whatever the allow
\* rules are, CheckPermission does not return allow.
C17_DeniedPrefixNeverAllowed ==
    (Checked /\ DeniedPrefix) => checkResult.Decision # "allow"

(***************************************************************************)
(* Claims on the handling of messages and on the flags of a turn.          *)
(***************************************************************************)
\* The response the Prompt call is about to handle, and its session.
Handling == prompts["p1"].resp

HandlingSession == prompts["p1"].session

\* The handling of a response that was read, in a turn that is not cancelled.
Handles(type) ==
    /\ PromptDispatch("p1")
    /\ Handling.type = type
    /\ ~sess[HandlingSession].cancelled

\* What the step has handed to the client.
Forwarded == SubSeq(conn', Len(conn) + 1, Len(conn'))

CountKinds(notes, kinds) == Cardinality({i \in 1..Len(notes) : notes[i].kind \in kinds})

CountBlocks(content, types) ==
    Cardinality({i \in 1..Len(content.blocks) : content.blocks[i].type \in types})

\* The pieces of plain text and thinking of a content.
TextPieces(content) ==
    IF content.kind = "string" THEN 1 ELSE CountBlocks(content, {"text", "thinking"})

\* C18: of a consolidated assistant message, the text and thinking content, be
\* the content a list of blocks or a plain string, is forwarded exactly when
\* the stream-events flag of the session is unset; its tool uses are
\* forwarded in both cases.
C18_DuplicateSuppression ==
    [][Handles("assistant") =>
          /\ CountKinds(Forwarded, {"agent_message_chunk", "agent_thought_chunk"})
                = IF sess[HandlingSession].streamEventsReceived THEN 0
                  ELSE TextPieces(Handling.content)
          /\ CountKinds(Forwarded, {"tool_call"})
                = CountBlocks(Handling.content, ToolUseTypes)]_vars

\* C19: the reset at the start of a Prompt leaves both flags of the session
\* false; a stream event handled in a turn that is not cancelled leaves the
\* stream-events flag true, whatever its nested type and whether or not it gave
\* a notification; the flag goes back to false only by the reset of a Prompt.
C19_TurnFlags ==
    [][/\ PromptReset("p1") =>
              /\ ~sess'[HandlingSession].cancelled
              /\ ~sess'[HandlingSession].streamEventsReceived
       /\ Handles("stream_event") => sess'[HandlingSession].streamEventsReceived
       /\ \A s \in sessions :
              (sess[s].streamEventsReceived /\ ~sess'[s].streamEventsReceived)
                  => PromptReset("p1")]_vars

\* A content of plain text only: a plain string or a list of text blocks.
PlainTextOnly(content) ==
    \/ content.kind = "string"
    \/ /\ content.kind = "blocks"
       /\ \A i \in 1..Len(content.blocks) : content.blocks[i].type = "text"

\* C20: handling a user message whose content is plain text only, a plain
\* string or a list of text blocks of any length, forwards nothing to the
\* client and leaves the tool-use cache as it was.
C20_UserEchoDropped ==
    [][(Handles("user") /\ PlainTextOnly(Handling.content)) =>
          (conn' = conn /\ toolUseCache' = toolUseCache)]_vars

(***************************************************************************)
(* Claims on the tool-use correlation cache.                               *)
(***************************************************************************)
\* A message made of tool results only, none of which names a key of the
\* cache.
UncorrelatedOnly(resp) ==
    /\ resp.type \in {"assistant", "user"}
    /\ resp.content.kind = "blocks"
    /\ resp.content.blocks # <<>>
    /\ \A i \in 1..Len(resp.content.blocks) :
           /\ resp.content.blocks[i].type \in ToolResultTypes
           /\ toolUseCache[resp.content.blocks[i].id] = ""

\* C21: a tool result whose tool_use_id is not a key of the cache gives no
\* notification and leaves the cache as it was; every tool-call update handed
\* to the client carries an identifier the cache holds from a tool-use block.
C21_UncorrelatedDropped ==
    [][/\ (PromptDispatch("p1") /\ UncorrelatedOnly(Handling)) =>
              (conn' = conn /\ toolUseCache' = toolUseCache)
       /\ \A i \in (Len(conn) + 1)..Len(conn') :
              conn'[i].kind = "tool_call_update" => toolUseCache'[conn'[i].id] # ""]_vars

\* A turn has just handled a result of t1 that no tool use had announced.
C21_Witness ==
    /\ prompts["p1"].pc = "loop"
    /\ ~prompts["p1"].ctxDone
    /\ Len(prompts["p1"].log) >= 1
    /\ CarriesResult(prompts["p1"].log[Len(prompts["p1"].log)], "t1")
    /\ toolUseCache["t1"] = ""
    /\ ~sess["s1"].cancelled

\* The Prompt call has read a message with a tool use or a tool result and
\* is in the code that hands it, with a.toolUseCache, to toAcpNotifications.
TouchesCache(p) ==
    /\ prompts[p].pc = "dispatch"
    /\ prompts[p].resp.type \in {"stream_event", "assistant", "user"}
    /\ ~sess[prompts[p].session].cancelled
    /\ \E i \in 1..Len(prompts[p].resp.content.blocks) :
           prompts[p].resp.content.blocks[i].type \in ToolUseTypes \cup ToolResultTypes

\* C22: whatever the interleaving of the Prompt calls on the sessions of one
\* agent, no two of them are reading or writing the tool-use cache at the
\* same time.
C22_NoConcurrentCacheAccess ==
    \A p, q \in PromptIds : (p # q /\ TouchesCache(p)) => ~TouchesCache(q)

\* C23: every tool-call update sent under a session S with an identifier T
\* comes after a tool-call start sent under the same session S with T; a tool
\* use seen only in another session gives no update in S.
C23_StartBeforeUpdateInSession ==
    \A i \in 1..Len(conn) :
        conn[i].kind = "tool_call_update" =>
            \E j \in 1..(i - 1) :
                /\ conn[j].kind = "tool_call"
                /\ conn[j].sessionId = conn[i].sessionId
                /\ conn[j].id = conn[i].id

(***************************************************************************)
(* Claims on the turns of a session.                                       *)
(***************************************************************************)
\* A step of the Prompt loop on s1 that returns from the turn while the child
\* of s1 is still running.
ReturnsWhileRunning ==
    /\ prompts["p1"].session = "s1"
    /\ prompts["p1"].pc \in {"loop", "dispatch"}
    /\ prompts'["p1"].pc = "done"
    /\ ~proc["s1"].exited

\* C24: when a turn returns while the child is still running, no line the
\* child wrote is left unread in the stream for the next turn of the session
\* to read and forward, so that a turn handles only events emitted for it.
C24_NoLeakBetweenTurns ==
    [][ReturnsWhileRunning => stdout'["s1"] = <<>>]_vars

\* The agent has seen the child of session s gone: a Close of a Cancel has
\* waited for its exit, or a Prompt on s has returned on the end of its stream.
ProcessEnded(s) ==
    \/ proc[s].done > 0
    \/ \E p \in PromptIds :
          /\ prompts[p].pc = "done"
          /\ prompts[p].session = s
          /\ prompts[p].resp = EndOfStream

\* C25: once the child of a session has exited, closed by a cancellation or
\* at the end of its stream, the session is removed from the registry, so
\* that later requests with its identifier find no session.
C25_SessionEndsWithProcess ==
    \A s \in SessionIds : ProcessEnded(s) => s \notin sessions

\* The Close call of Cancel c returns in this step.
CloseReturns(c) ==
    /\ cancels[c].pc \in {"close", "wait"}
    /\ cancels'[c].pc = "done"

\* C26: whatever the order and interleaving of the Close calls on the process
\* of a session, when a Close returns the input of the child is closed, the
\* child has exited and done has been signalled, and done is signalled no
\* more than once.
C26_CloseSignalsDoneOnce ==
    [][/\ \A c \in CancelIds :
             CloseReturns(c) =>
                 LET s == cancels[c].session
                 IN  /\ ~proc'[s].stdinOpen
                     /\ proc'[s].exited
                     /\ proc'[s].done = 1
       /\ \A s \in SessionIds : proc'[s].done <= 1]_vars

\* The Close of the first Cancel has returned and the second Cancel is about
\* to close the same process.
C26_Witness ==
    /\ cancels["c1"].pc = "done"
    /\ cancels["c1"].session = "s1"
    /\ proc["s1"].done = 1
    /\ cancels["c2"].pc = "close"
    /\ cancels["c2"].session = "s1"

\* What ReadMessage gave that ends a turn: a result event, the end of the
\* stream, an error of the scanner or of the decoder.
EndsTurn(resp) == resp.type \in {"result", "#eof", "#error", "#unparsable"}

\* C27: the loop of Prompt returns only on a result event, on the end of the
\* stream, on a cancellation it has observed or on a read error; every other
\* line, of a known or an unknown type, sends it back to read the next one
\* with no outcome; the end of the stream of a session nobody cancelled gives
\* end-turn.
C27_WhatEndsATurn ==
    [][LET t == prompts["p1"]
           s == t.session
       IN  /\ (t.pc = "loop" /\ prompts'["p1"].pc = "done") =>
                  /\ t.ctxDone \/ sess[s].cancelled
                  /\ prompts'["p1"].outcome = Stop("cancelled")
           /\ (t.pc = "dispatch" /\ prompts'["p1"].pc = "done") => EndsTurn(t.resp)
           /\ (PromptDispatch("p1") /\ ~EndsTurn(t.resp)) =>
                  /\ prompts'["p1"].pc = "loop"
                  /\ prompts'["p1"].outcome = NoOutcome
           /\ (PromptDispatch("p1") /\ t.resp = EndOfStream /\ ~sess[s].cancelled) =>
                  prompts'["p1"].outcome = Stop("end_turn")]_vars

\* A turn that read a line of an unknown type, went on, and ended with
\* end-turn at the end of the stream.
C27_Witness ==
    /\ prompts["p1"].pc = "done"
    /\ prompts["p1"].resp = EndOfStream
    /\ prompts["p1"].outcome = Stop("end_turn")
    /\ \E i \in 1..Len(prompts["p1"].log) : prompts["p1"].log[i].type = "mystery"

\* C28: a line that cannot be decoded makes ReadMessage return an error, not
\* the end of the stream, and the turn ends at once with an error, no stop
\* reason and no notification; the end of the stream is returned only when
\* the child has exited, every line has been read and the pipe was not closed
\* under the scanner; a decoded response is the line as it was received.
C28_UnparsableLineIsFatal ==
    [][LET t == prompts["p1"]
           s == t.session
       IN  /\ (PromptRead("p1") /\ stdout[s] # <<>>) =>
                  /\ prompts'["p1"].resp = Head(stdout[s])
                  /\ prompts'["p1"].resp # EndOfStream
           /\ (PromptDispatch("p1") /\ t.resp.type = "#unparsable") =>
                  /\ prompts'["p1"].pc = "done"
                  /\ prompts'["p1"].outcome.kind = "error"
                  /\ prompts'["p1"].outcome.reason = "read error"
                  /\ conn' = conn
           /\ (PromptRead("p1") /\ prompts'["p1"].resp = EndOfStream) =>
                  /\ stdout[s] = <<>>
                  /\ proc[s].exited
                  /\ ~proc[s].stdoutClosed \/ proc[s].scannerEOF]_vars

\* A turn that ended with an error on an unparsable line of a running child.
C28_Witness ==
    /\ prompts["p1"].pc = "done"
    /\ prompts["p1"].resp.type = "#unparsable"
    /\ prompts["p1"].outcome = Failure("read error", <<>>)
    /\ ~proc["s1"].exited

\* The result event the loop is handling has a subtype that is neither
\* success nor one of the limits, in a turn that is not cancelled.
OtherResult ==
    /\ prompts["p1"].resp.type = "result"
    /\ prompts["p1"].resp.subtype \notin {"success"} \cup LimitSubtypes
    /\ ~sess[prompts["p1"].session].cancelled

\* C29: a result event of any other subtype, error_during_execution and
\* unknown ones included and whatever its error flag, ends a turn that is not
\* cancelled with the stop reason end-turn and no error.
C29_OtherSubtypesEndTurn ==
    [][(PromptDispatch("p1") /\ OtherResult) =>
            /\ prompts'["p1"].pc = "done"
            /\ prompts'["p1"].outcome = Stop("end_turn")]_vars

\* The places of the tool-use blocks of identifier T in the event e.
UsesOf(e, T) ==
    {i \in 1..Len(e.content.blocks) :
        e.content.blocks[i].type \in ToolUseTypes /\ e.content.blocks[i].id = T}

\* The name of the last tool-use block of identifier T in the event e.
LastUse(e, T) ==
    LET last == CHOOSE i \in UsesOf(e, T) : \A j \in UsesOf(e, T) : j <= i
    IN  e.content.blocks[last].name

\* The result of a tool use that the cache holds, and that is not a
\* TodoWrite, is being handled.
MatchedResult(T) ==
    /\ Handling.type = "user"
    /\ HasBlock(Handling, "tool_result", T)
    /\ toolUseCache[T] \notin {"", "TodoWrite"}
    /\ ~sess["s1"].cancelled

\* C30: no identifier ever leaves the tool-use cache; handling a matched tool
\* result sends its update and leaves the cache as it is, in whatever turn it
\* arrives; an entry changes only when a tool use with its identifier is
\* recorded, to the name of that tool use, and no other entry changes with it.
C30_CacheOnlyGrows ==
    [][/\ \A T \in ToolIds : toolUseCache[T] # "" => toolUseCache'[T] # ""
       /\ \A T \in ToolIds :
             (PromptDispatch("p1") /\ MatchedResult(T)) =>
                 /\ toolUseCache' = toolUseCache
                 /\ \E i \in (Len(conn) + 1)..Len(conn') :
                        conn'[i].kind = "tool_call_update" /\ conn'[i].id = T
       /\ \A T \in ToolIds :
             toolUseCache'[T] # toolUseCache[T] =>
                 /\ PromptDispatch("p1")
                 /\ UsesOf(Handling, T) # {}
                 /\ toolUseCache'[T] = LastUse(Handling, T)]_vars

\* The second turn has forwarded the update of a tool result whose tool use
\* was recorded in the first turn.
C30_Witness ==
    /\ calls = 2
    /\ prompts["p1"].pc = "loop"
    /\ Len(prompts["p1"].log) = 1
    /\ CarriesResult(prompts["p1"].log[1], "t1")
    /\ conn # <<>>
    /\ conn[Len(conn)].kind = "tool_call_update"
    /\ conn[Len(conn)].id = "t1"
    /\ conn[Len(conn)].ev = prompts["p1"].log[1].seq

(***************************************************************************)
(* Further claims on the permission rule engine.                           *)
(***************************************************************************)
\* The pairs of a rule name and a tool to which the rule applies.
ApplicabilityTable ==
    { << <<"Bash">>, AcpTool("Bash") >>, << <<"Edit">>, AcpTool("Edit") >>,
      << <<"Edit">>, AcpTool("Write") >>, << <<"Read">>, AcpTool("Read") >> }

\* C31: a rule matches an invocation only if its name and the tool are a pair
\* of the table; a rule of such a pair with no argument matches whatever the
\* input; a rule of any other name matches nothing, so that no rule matches
\* an invocation of BashOutput or KillShell.
C31_RuleApplicability ==
    matched # "none" =>
        LET pair == << parsed.toolName, toolName >>
        IN  /\ matched = "yes" => pair \in ApplicabilityTable
            /\ (pair \in ApplicabilityTable /\ parsed.argument = <<>>) => matched = "yes"
            /\ parsed.toolName \notin {<<"Bash">>, <<"Edit">>, <<"Read">>} => matched = "no"
            /\ toolName \in {AcpTool("BashOutput"), AcpTool("KillShell")} => matched = "no"

\* An Edit rule with no argument has matched an invocation of the Write tool.
C31_Witness ==
    /\ matched = "yes"
    /\ parsed = ParsedRule(<<"Edit">>, <<>>, FALSE)
    /\ toolName = AcpTool("Write")
    /\ toolInput.file_path # <<>>

(***************************************************************************)
(* Further claims on the diff engine.                                      *)
(***************************************************************************)
\* The places of the changed lines of a hunk.
ChangedPlaces(h) == {i \in 1..Len(h.lines) : h.lines[i][1] # " "}

\* The unchanged lines of a hunk before its first and after its last change.
LeadingContext(h) ==
    Cardinality({i \in 1..Len(h.lines) : \A c \in ChangedPlaces(h) : i < c})

TrailingContext(h) ==
    Cardinality({i \in 1..Len(h.lines) : \A c \in ChangedPlaces(h) : i > c})

\* C32: every hunk computed has at most three unchanged lines before its
\* first and after its last changed line, and its old and new counts are the
\* numbers of its context and removed, and of its context and added lines.
C32_HunkContext ==
    diffPc # "start" =>
        LET hunks == computeDiffHunks(OldLines, NewLines)
        IN  \A k \in 1..Len(hunks) :
                LET h == hunks[k]
                IN  /\ ChangedPlaces(h) # {}
                    /\ LeadingContext(h) <= contextLines
                    /\ TrailingContext(h) <= contextLines
                    /\ h.oldCount = Cardinality({i \in 1..Len(h.lines) : h.lines[i][1] # "+"})
                    /\ h.newCount = Cardinality({i \in 1..Len(h.lines) : h.lines[i][1] # "-"})

\* The hunks of the parsed diff that have a line.
HunksWithLines == SelectSeq(HunksOf(patches), LAMBDA h : h.lines # <<>>)

\* C33: each hunk of the parsed diff that has a line yields one diff content
\* block and one location; the line of the location is the new-file line
\* number of the first changed line of the hunk, also after context lines;
\* the old text is the removed and context lines, the new text the added and
\* context lines, in order.
C33_EditResultLocation ==
    toolUpdate # NoUpdate =>
        LET hs == HunksWithLines
        IN  /\ Len(toolUpdate.Content) = Len(hs)
            /\ Len(toolUpdate.Locations) = Len(hs)
            /\ \A k \in 1..Len(hs) :
                   /\ ChangedPlaces(hs[k]) # {} =>
                          toolUpdate.Locations[k].Line
                              = hs[k].newStart + LeadingContext(hs[k])
                   /\ toolUpdate.Content[k].oldText
                          = JoinLines(HunkSide(hs[k].lines, "+"))
                   /\ toolUpdate.Content[k].newText
                          = JoinLines(HunkSide(hs[k].lines, "-"))

(***************************************************************************)
(* Claims on the built-in tool handlers.                                   *)
(***************************************************************************)
\* The foreground call waits, and its command has exited with a code while
\* the deadline has not expired.
ExitedInTime ==
    /\ bash.pc = "wait"
    /\ bash.exit \in {"code0", "code1"}
    /\ ~bash.deadline

ReportsExitCode ==
    \E i \in 1..Len(bash.text) : bash.text[i] = "Exited with code "

\* The deadline part of C34: a kill request is sent only for the terminal of
\* the call and only on an expired deadline; a call that found the deadline
\* expired has sent one and reports Timed out; and a wait whose deadline has
\* expired can return.
KillsOnExpiry ==
    /\ Len(bash.kills) <= 1
    /\ \A i \in 1..Len(bash.kills) : bash.kills[i] = bash.terminalID
    /\ bash.kills # <<>> => bash.status = "timedOut" /\ bash.deadline
    /\ bash.status = "timedOut" => bash.kills = << bash.terminalID >>
    /\ (bash.pc = "done" /\ bash.status = "timedOut") => Head(bash.text) = "Timed out. "
    /\ (bash.pc = "wait" /\ bash.deadline) => ENABLED WaitReturnsError

C35_TerminalRelease ==
    /\ Len(bash.releases) <= 1
    /\ \A i \in 1..Len(bash.releases) : bash.releases[i] = bash.terminalID
    /\ bash.terminalID = "" => bash.releases = <<>>
    /\ (bash.pc = "done" /\ bash.terminalID # "" /\ ~bash.background) =>
           bash.releases = << bash.terminalID >>
    /\ (bash.terminalID # "" /\ bash.background) =>
           /\ bash.pc = "done"
           /\ bash.releases = <<>>
           /\ bash.status = ""
           /\ bash.text = << "Command started in background with id: ", bash.terminalID >>
           /\ ~bash.isError

\* A call has returned after its wait and its output request both failed.
C35_Witness ==
    /\ bash.pc = "done"
    /\ bash.waitFailed
    /\ bash.status = "exited"
    /\ ~bash.outputOk
    /\ bash.releases = << "term1" >>

(***************************************************************************)
(* Claims on handleEdit and replaceAndCalculateLocation.                   *)
(***************************************************************************)
Occurrences(s, sub) ==
    {i \in 1..(Len(s) - Len(sub) + 1) : SubSeq(s, i, i + Len(sub) - 1) = sub}

\* The occurrences taken from left to right, none overlapping one taken
\* before it.
LeftToRight(s, sub) ==
    CHOOSE P \in SUBSET Occurrences(s, sub) :
        \A q \in Occurrences(s, sub) :
            q \in P <=> \A p \in P : p < q => p + Len(sub) <= q

\* The text s from place from on, with new in the place of the n symbols at
\* each place of P.
RECURSIVE Splice(_, _, _, _, _)
Splice(s, P, n, new, from) ==
    IF {p \in P : p >= from} = {} THEN SubSeq(s, from, Len(s))
    ELSE LET p == Min({q \in P : q >= from})
         IN  SubSeq(s, from, p - 1) \o new \o Splice(s, P, n, new, p + n)

ExpectedContent ==
    Splice(edit.fileContent,
           IF edit.replaceAll THEN LeftToRight(edit.fileContent, edit.oldString)
           ELSE {Min(Occurrences(edit.fileContent, edit.oldString))},
           Len(edit.oldString), edit.newString, 1)

\* C37: when replaceAndCalculateLocation has returned for a non-empty
\* old_string that occurs in the file content, there is no error, the content
\* returned is the file content with new_string in the place of the first
\* occurrence of old_string (replace_all unset) or of every occurrence that
\* overlaps none replaced before it, from left to right (replace_all set), also
\* when new_string contains old_string; no symbol of the content returned is a
\* marker; and the line numbers returned increase strictly.  For an empty
\* old_string and for one that does not occur it returns an error, no content
\* and no line numbers.
C37_TextReplacement ==
    edit.replaced # NoReplace =>
        IF edit.oldString = <<>> \/ Occurrences(edit.fileContent, edit.oldString) = {}
        THEN /\ edit.replaced.err # ""
             /\ edit.replaced.content = <<>>
             /\ edit.replaced.lineNumbers = <<>>
        ELSE /\ edit.replaced.err = ""
             /\ edit.replaced.content = ExpectedContent
             /\ \A i \in 1..Len(edit.replaced.content), k \in 1..Len(Markers) :
                    edit.replaced.content[i] # Markers[k]
             /\ edit.replaced.lineNumbers # <<>>
             /\ \A i \in 1..(Len(edit.replaced.lineNumbers) - 1) :
                    edit.replaced.lineNumbers[i] < edit.replaced.lineNumbers[i + 1]

\* Every a of a file of two lines was replaced by two of them.
C37_Witness ==
    /\ edit.pc = "done"
    /\ edit.replaceAll
    /\ edit.oldString = << "a" >>
    /\ edit.newString = << "a", "a" >>
    /\ edit.fileContent = << "a", NL, "a" >>
    /\ edit.replaced = ReplaceResult(<< "a", "a", NL, "a", "a" >>, << 0, 1 >>, "")
    /\ edit.file = << "a", "a", NL, "a", "a" >>

\* The Bash call has returned and its input or one of its requests to the
\* client had failed: no command, no terminal created, the wait request
\* failed before the deadline, or the output request failed.
BashRequestFailed ==
    /\ bash.pc = "done"
    /\ \/ ~bash.command
       \/ bash.terminalID = ""
       \/ bash.status = "exited" /\ bash.exitCode = -1 /\ bash.signal = ""
       \/ bash.status # "" /\ ~bash.outputOk

\* The Edit call has returned without a file path, without the file content,
\* or with an old_string that is empty or absent from the file.
EditFailedBeforeWrite ==
    /\ edit.pc = "done"
    /\ \/ edit.filePath = ""
       \/ edit.replaced = NoReplace
       \/ edit.replaced.err # ""

\* C36: no handler returns an error value; a Bash call and an Edit call whose
\* required input or whose request to the client failed return with the error
\* flag set; and an Edit call that failed for its path, its file or its
\* old_string has issued no write and left the file as it was.
C36_ToolFailuresAreContent ==
    /\ ~bash.err
    /\ ~edit.err
    /\ BashRequestFailed => bash.isError
    /\ EditFailedBeforeWrite =>
           /\ edit.isError
           /\ edit.writes = <<>>
           /\ edit.replaced # NoReplace => edit.file = edit.fileContent
    /\ (edit.pc = "done" /\ ~edit.isError) =>
           /\ edit.writes = << edit.replaced.content >>
           /\ edit.file = edit.replaced.content

(***************************************************************************)
(* Claims on toolInfoFromToolUse.                                          *)
(***************************************************************************)
\* C38: when toolInfoFromToolUse has returned for a name that no case of the
\* switch has, the kind is other, the title is the name, or Unknown Tool for
\* the blank name, and the content is one block with the input as indented
\* JSON text.
C38_UnmatchedNameFallback ==
    (toolCall.called /\ toolCall.name \notin StartMappingNames) =>
        /\ toolCall.info.Kind = "other"
        /\ toolCall.info.Title = (IF toolCall.name = "" THEN "Unknown Tool" ELSE toolCall.name)
        /\ Len(toolCall.info.Content) = 1
        /\ toolCall.info.Content[1].type = "content"
        /\ \E i \in 1..(Len(toolCall.info.Content[1].text) - Len(MarshalIndent(toolCall.input)) + 1) :
               SubSeq(toolCall.info.Content[1].text, i,
                      i + Len(MarshalIndent(toolCall.input)) - 1) = MarshalIndent(toolCall.input)

====
